---- MODULE Spec2Model ----
(***************************************************************************)
(* zfsrabbit: the replication scheduler (package scheduler) and the        *)
(* restore manager (package restore), with the parts of the transport and  *)
(* the ZFS manager they call.                                              *)
(*                                                                         *)
(* Snapshot names are integers: a scheduled snapshot autosnap_<timestamp>  *)
(* is the value of the clock at its creation, a name that only the remote  *)
(* side knows is negative, and 0 is Go's empty string.                     *)
(***************************************************************************)
EXTENDS Integers, Sequences, FiniteSets, TLC

(***************************************************************************)
(* Bounds of the model.                                                    *)
(***************************************************************************)
\* goroutines (cron runs, triggered runs, retry calls) started in a behaviour
MaxRuns == 3
\* the same, in the behaviours that start from every local and remote snapshot list
MaxPlanRuns == 2
\* the local dataset starts with the snapshots 1..k, k <= InitLocal
InitLocal == 3
\* the remote dataset starts with at most this many snapshots
MaxRemote == 2
\* ticks the wall clock advances in a behaviour
MaxTicks == 2
\* restore jobs requested in a behaviour
MaxJobs == 1
\* the same, in the behaviours of the job table
MaxTableJobs == 2

NoName == 0
ForeignNames == {-1}
Procs == 1..(IF MaxRuns > MaxPlanRuns THEN MaxRuns ELSE MaxPlanRuns)
InitNames == (1..InitLocal) \cup ForeignNames
FirstStamp == InitLocal + 1

Range(s) == {s[i] : i \in 1..Len(s)}
NoDup(s) == \A i, j \in 1..Len(s) : i # j => s[i] # s[j]
SeqsUpTo(S, n) == UNION {[1..k -> S] : k \in 0..n}
Prefix(n) == [i \in 1..n |-> i]

VARIABLES
    \* ---- scheduler.Scheduler ----
    sendMutex,        \* sync.Mutex: TRUE when locked
    pendingSends,     \* []string
    procs,            \* goroutines running performSnapshot / performRetry / RetryPendingSends
    started,          \* goroutines started so far
    serial,           \* the behaviour starts a goroutine only when the others have returned
    trigHolding,      \* a TriggerSnapshot caller is between TryLock and Unlock
    \* ---- environment of the scheduler ----
    localSnapshots,   \* zfs list -t snapshot -s creation <dataset>: names, oldest first
    remoteSnapshots,  \* what ListRemoteSnapshots returns when it succeeds
    now,              \* wall clock, in ticks
    alerts,           \* the SyncAlerter: how many calls it got, and the latest one
    lastAttempt,      \* what the latest sendSnapshot call did, and the pruning after it
    lastCall          \* the latest call of the public API and what it returned

VARIABLES
    \* ---- restore.RestoreManager ----
    jobs,             \* the RestoreJob objects allocated so far
    nJobs,            \* how many
    activeJobs,       \* the package-level map from job ID to *RestoreJob (0: no entry)
    workers,          \* goroutines running performRestore: [job, pc, exists]
    evictors,         \* jobs whose clean-up goroutine is in its time.Sleep(1 * time.Hour)
    restoreCall,      \* what the ConfirmDestructiveRestore call of the latest step returned
    tableUse,         \* the reads of activeJobs in progress, and whether the runtime has
                      \* ended the process over a concurrent map access
    \* ---- environment of the restore manager ----
    restoreLog,       \* transport restores invoked: [job, force]
    dirty,            \* per local dataset: it holds changes newer than its latest snapshot
    otherExists,      \* the local dataset that is not the configured one exists
    otherSnapshots,   \* and its snapshots
    sourceSnapshots   \* what GetSnapshotsForDataset returns for the explicit source dataset

VARIABLES
    \* ---- monitor.Monitor ----
    alertStates,      \* map[string]*AlertState, by device (NoState: no entry)
    diskCall          \* the latest sendDiskAlert call: its input, the entry it found, and
                      \* what it handed to the Alerter

VARIABLES
    \* ---- the cron.Cron and the context of the scheduler ----
    cron              \* [running, entries per job kind, cancelled]

schedOwn == <<sendMutex, pendingSends, procs, started, serial, trigHolding, alerts,
              lastAttempt, lastCall>>
restoreOwn == <<jobs, nJobs, activeJobs, workers, evictors, restoreCall, tableUse,
                restoreLog, dirty, otherExists, otherSnapshots, sourceSnapshots>>

monOwn == <<alertStates, diskCall>>

vars == <<schedOwn, restoreOwn, monOwn, cron, localSnapshots, remoteSnapshots, now>>

\* (afterStop: the goroutine was started when Stop had returned; batch: how many
\* goroutines had been started before the cron tick or call that started this one;
\* both kept for the properties only; inCall: the goroutine is inside a call of the
\* transport that has not returned)
IdleProc == [pc |-> "idle", kind |-> "none", origin |-> "none", snap |-> NoName,
             idx |-> 0, still |-> <<>>, afterStop |-> FALSE, batch |-> 0,
             inCall |-> FALSE]
DoneProc == [IdleProc EXCEPT !.pc = "done"]
NoAttempt == [snap |-> NoName, enumErr |-> FALSE, listErr |-> FALSE, plan |-> "none",
              base |-> NoName, sent |-> FALSE, ok |-> FALSE, prune |-> "none",
              valid |-> FALSE]
NoCall == [op |-> "none", err |-> "nil"]

Dataset == "tank"
OtherDataset == "other"
Datasets == {Dataset, OtherDataset}
DefaultSource == ""
SourceDatasets == {DefaultSource, "backup"}
JobObjs == 1..(IF MaxJobs > MaxTableJobs THEN MaxJobs ELSE MaxTableJobs)
JobIDs == FirstStamp..(FirstStamp + MaxTicks)
RestoreNames == {1, 2}

\* the zero time.Time, and the nil *time.Time
NoTime == 0
\* tracked, hasUncommittedData and cleanTarget are not fields of RestoreJob: whether the
\* job was put into the table, what its latest safety check found, and whether at that
\* check (made or skipped) the target existed with a snapshot and without changes since;
\* nor is listFailed: the listing of checkTargetDatasetExists returned an error
NoJob == [ID |-> NoName, SnapshotName |-> NoName, SourceDataset |-> DefaultSource,
          TargetDataset |-> Dataset, Status |-> "none", Progress |-> 0,
          StartTime |-> NoTime, EndTime |-> NoTime,
          Error |-> "nil", RequiresConfirm |-> FALSE, SafetyWarning |-> FALSE,
          ForceConfirmed |-> FALSE, tracked |-> FALSE, hasUncommittedData |-> "unchecked",
          cleanTarget |-> FALSE, listFailed |-> FALSE]
NoRestoreCall == [op |-> "none", id |-> NoName, err |-> "nil"]

\* the disks the monitor looks at: one NVMe drive and one SATA disk
Devices == {"/dev/nvme0n1", "/dev/sda"}

\* no entry in alertStates
\* (alerted: an alert for the device has been handed to the Alerter, kept for the
\* properties only)
NoState == [LastAlertTime |-> 0, LastSeverity |-> 0, LastTemperature |-> 0,
            LastCriticalWarning |-> 0, exists |-> FALSE, alerted |-> FALSE]

\* sendDiskAlert has not been called
NoSMART == [Device |-> "none", IsNVMe |-> FALSE, Temperature |-> 0, CriticalWarning |-> 0,
            PercentageUsed |-> 0, AvailableSpare |-> 0]
NoDiskCall == [smart |-> NoSMART, severity |-> 0, prev |-> NoState, at |-> 0,
               sent |-> FALSE, subject |-> <<>>]

\* monitor.New: an empty alertStates map
MonitorNew ==
    /\ alertStates = [d \in Devices |-> NoState]
    /\ diskCall = NoDiskCall

\* nobody reads the job table
NoUse == [readers |-> {}, fatal |-> FALSE]

\* restore.New and the empty package-level job table
RestoreNew ==
    /\ jobs = [j \in JobObjs |-> NoJob]
    /\ nJobs = 0
    /\ activeJobs = [id \in JobIDs |-> 0]
    /\ workers = {}
    /\ evictors = {}
    /\ restoreCall = NoRestoreCall
    /\ tableUse = NoUse
    /\ restoreLog = {}

\* no restore is ever requested
RestoreUnused ==
    /\ RestoreNew
    /\ dirty = [d \in Datasets |-> FALSE]
    /\ otherExists = FALSE
    /\ otherSnapshots = <<>>
    /\ sourceSnapshots = <<>>

\* the job kinds Start registers with the cron
JobKinds == {"snapshot", "scrub", "retry"}

\* after the first Start: one entry per job kind, the cron running
StartedCron == [running |-> TRUE, entries |-> [k \in JobKinds |-> 1], cancelled |-> FALSE]

\* scheduler.New followed by Start
SchedNew ==
    /\ cron = StartedCron
    /\ sendMutex = FALSE
    /\ pendingSends = <<>>
    /\ procs = [p \in Procs |-> IdleProc]
    /\ started = 0
    /\ trigHolding = FALSE
    /\ now = FirstStamp
    /\ alerts = [n |-> 0, kind |-> "none", snap |-> NoName]
    /\ lastAttempt = NoAttempt
    /\ lastCall = NoCall

\* a new scheduler on a dataset with its first snapshots, none of them replicated yet
SchedInit ==
    /\ SchedNew
    /\ RestoreUnused
    /\ MonitorNew
    /\ serial = FALSE
    /\ localSnapshots = Prefix(InitLocal)
    /\ remoteSnapshots = <<>>

\* a new scheduler on the datasets as it may find them, for a few runs one after another
PlanInit ==
    /\ SchedNew
    /\ RestoreUnused
    /\ MonitorNew
    /\ serial = TRUE
    /\ localSnapshots \in {Prefix(k) : k \in 0..InitLocal}
    /\ remoteSnapshots \in {s \in SeqsUpTo(InitNames, MaxRemote) : NoDup(s)}

\* alerter.SendSyncSuccess / SendSyncFailure
SendSyncSuccess(snapshot) == [n |-> alerts.n + 1, kind |-> "success", snap |-> snapshot]
SendSyncFailure(snapshot) == [n |-> alerts.n + 1, kind |-> "failure", snap |-> snapshot]

(***************************************************************************)
(* Scheduler: the send plan (sendSnapshot) and pruning.                    *)
(***************************************************************************)
maxSnapshots == 30

RECURSIVE LastCommonFrom(_, _, _, _)
\* the nested loops of sendSnapshot: every remote name, in the order the remote
\* listed them, that equals some local name overwrites lastCommon
LastCommonFrom(remote, local, i, acc) ==
    IF i > Len(remote) THEN acc
    ELSE LastCommonFrom(remote, local, i + 1,
             IF \E j \in 1..Len(local) : local[j] = remote[i] THEN remote[i] ELSE acc)

\* a slip: stop at the first match
FirstCommon(remote, local) ==
    LET hits == {i \in 1..Len(remote) : remote[i] \in Range(local)}
    IN  IF hits = {} THEN NoName
        ELSE remote[CHOOSE i \in hits : \A k \in hits : i <= k]

\* a slip: the equality test against the local names is left out
LastRemote(remote, local) ==
    IF Len(remote) = 0 THEN NoName ELSE remote[Len(remote)]

LastCommon(remote, local) == LastCommonFrom(remote, local, 1, NoName)

FullPlan == [plan |-> "full", base |-> NoName]
NoPlan == [plan |-> "none", base |-> NoName]

\* the earlier behaviour: a failed remote enumeration falls back to a full send
sendSnapshotFallback(snapshotName, remoteErr, remote, localErr, local) ==
    IF remoteErr THEN FullPlan
    ELSE IF Len(remote) = 0 THEN FullPlan
    ELSE IF localErr THEN NoPlan
    ELSE LET lastCommon == LastCommon(remote, local)
         IN  IF lastCommon = NoName THEN FullPlan
             ELSE [plan |-> "incr", base |-> lastCommon]

\* Scheduler.sendSnapshot up to the choice of sendFullSnapshot / sendIncrementalSnapshot;
\* "none" is an error return before either is called
sendSnapshot(snapshotName, remoteErr, remote, localErr, local) ==
    IF remoteErr THEN NoPlan
    ELSE IF Len(remote) = 0 THEN FullPlan
    ELSE IF localErr THEN NoPlan
    ELSE LET lastCommon == LastCommon(remote, local)
         IN  IF lastCommon = NoName THEN FullPlan
             ELSE [plan |-> "incr", base |-> lastCommon]

\* What the environment does to one sendSnapshot call:
\*   enumErr       ListRemoteSnapshots returns an error
\*   listErr       ListSnapshots returns an error (it is called only for a non-empty remote list)
\*   streamErr     StdoutPipe or Start of the zfs send command fails: the transport is not called
\*   transportErr  transport.SendSnapshot returns an error
\*   waitErr       the transport succeeded and sendCmd.Wait reports an abnormal exit
\*   ok            the snapshot is received
SendOutcomes == {"enumErr", "listErr", "streamErr", "transportErr", "waitErr", "ok"}

OutcomeAllowed(o) == o = "listErr" => Len(remoteSnapshots) > 0

\* snapshot a was created before snapshot b
Precedes(a, b, local) ==
    \E i, j \in 1..Len(local) : i < j /\ local[i] = a /\ local[j] = b

\* zfs send <dataset>@<name> and zfs send -i <dataset>@<from> <dataset>@<to> produce a
\* stream only for snapshots the dataset has, the second only from an earlier snapshot
SendValid(p, snapshotName, local) ==
    /\ p.plan # "none"
    /\ snapshotName \in Range(local)
    /\ p.plan = "incr" => Precedes(p.base, snapshotName, local)

\* the stream that sendSnapshot asks for when both listings succeed can be produced
Producible(snapshotName) ==
    SendValid(sendSnapshot(snapshotName, FALSE, remoteSnapshots, FALSE, localSnapshots),
              snapshotName, localSnapshots)

\* without a stream the remote zfs receive fails, and with it the transport
StreamAllowed(snapshotName, o) ==
    o \in {"waitErr", "ok"} => Producible(snapshotName)

\* sendSnapshot with sendFullSnapshot / sendIncrementalSnapshot under outcome o
Attempt(snapshotName, o) ==
    LET p == sendSnapshot(snapshotName, o = "enumErr", remoteSnapshots,
                          o = "listErr", localSnapshots)
    IN  [snap |-> snapshotName, enumErr |-> o = "enumErr", listErr |-> o = "listErr",
         plan |-> p.plan,
         base |-> p.base,
         sent |-> p.plan # "none" /\ o \in {"transportErr", "waitErr", "ok"},
         ok |-> p.plan # "none" /\ o = "ok", prune |-> "none",
         valid |-> Producible(snapshotName)]

\* zfs receive on the remote side: the received snapshot is listed from then on
RemoteAfter(a, o) ==
    IF a.sent /\ o \in {"waitErr", "ok"} /\ a.snap \notin Range(remoteSnapshots)
    THEN Append(remoteSnapshots, a.snap)
    ELSE remoteSnapshots

\* a slip: the newest snapshots are taken for the oldest
cleanupNewest(local, listErr, undestroyed) ==
    IF listErr \/ Len(local) <= maxSnapshots THEN local
    ELSE SubSeq(local, 1, maxSnapshots)

\* Scheduler.cleanupOldSnapshots: listErr is a failed ListSnapshots, undestroyed the
\* names whose DestroySnapshot fails (logged only)
cleanupOldSnapshots(local, listErr, undestroyed) ==
    IF listErr \/ Len(local) <= maxSnapshots THEN local
    ELSE LET toDelete == Range(SubSeq(local, 1, Len(local) - maxSnapshots))
             keep(n) == n \notin toDelete \/ n \in undestroyed
         IN  SelectSeq(local, keep)

ToDelete(local) ==
    IF Len(local) <= maxSnapshots THEN {}
    ELSE Range(SubSeq(local, 1, Len(local) - maxSnapshots))

\* how a call of cleanupOldSnapshots went: "listErr" it returned the error of
\* ListSnapshots, "nothing" there was nothing to delete, "incomplete" some
\* DestroySnapshot failed (which is logged), "done" every one succeeded
PruneResult(local, listErr, undestroyed) ==
    IF listErr THEN "listErr"
    ELSE IF Len(local) <= maxSnapshots THEN "nothing"
    ELSE IF undestroyed \cap ToDelete(local) # {} THEN "incomplete"
    ELSE "done"

\* the earlier behaviour: a failed send is reported and not queued
QueueNothing(pending, snapshotName) == pending

\* performSnapshot: s.pendingSends = append(s.pendingSends, snapshotName)
QueueFailed(pending, snapshotName) == Append(pending, snapshotName)

\* a slip: the names whose retry failed are not collected
StillPendingNone(stillPending, snapshotName, ok) == stillPending

\* retryPendingSendsUnsafe: stillPending = append(stillPending, snapshotName) on failure
StillPending(stillPending, snapshotName, ok) ==
    IF ok THEN stillPending ELSE Append(stillPending, snapshotName)

\* snapshot names that are never refused
NameNeverTaken(snapshotName, local) == FALSE

\* zfs snapshot <dataset>@<name> refuses a name the dataset already has
NameTaken(snapshotName, local) == snapshotName \in Range(local)

(***************************************************************************)
(* Scheduler: goroutines.  pc of a goroutine:                              *)
(*   lock    about to call sendMutex.Lock()                                *)
(*   loop    in the loop of retryPendingSendsUnsafe, at pendingSends[idx]  *)
(*   create  about to create the new snapshot                              *)
(*   send    about to send the new snapshot                                *)
(*   unlock  about to run the deferred sendMutex.Unlock()                  *)
(*   done    returned                                                      *)
(***************************************************************************)
InRun == {"loop", "create", "send", "unlock"}

RunLimit == IF serial THEN MaxPlanRuns ELSE MaxRuns

MaySpawn ==
    /\ started < RunLimit
    /\ serial => \A p \in Procs : procs[p].pc \in {"idle", "done"}

\* Stop has returned and Start has not been called since
Stopped == cron.cancelled /\ ~cron.running

\* n goroutines are started at once
SpawnAll(kind, origin, n) ==
    /\ MaySpawn
    /\ n >= 1
    /\ started + n <= RunLimit
    /\ started' = started + n
    /\ procs' = [p \in Procs |->
                    IF p \in (started + 1)..(started + n)
                    THEN [IdleProc EXCEPT !.pc = "lock", !.kind = kind, !.origin = origin,
                                          !.afterStop = Stopped, !.batch = started]
                    ELSE procs[p]]

Spawn(kind, origin) == SpawnAll(kind, origin, 1)

\* the cron schedule fires performSnapshot (cron runs every job in a goroutine of its own)
CronSnapshot ==
    /\ cron.running
    /\ SpawnAll("snapshot", "cron", cron.entries["snapshot"])
    /\ UNCHANGED <<sendMutex, pendingSends, serial, trigHolding, localSnapshots,
                   remoteSnapshots, now, alerts, lastAttempt, lastCall>>
    /\ UNCHANGED <<restoreOwn, monOwn, cron>>

\* the cron schedule fires performRetry
CronRetry ==
    /\ cron.running
    /\ SpawnAll("retryCron", "cron", cron.entries["retry"])
    /\ UNCHANGED <<sendMutex, pendingSends, serial, trigHolding, localSnapshots,
                   remoteSnapshots, now, alerts, lastAttempt, lastCall>>
    /\ UNCHANGED <<restoreOwn, monOwn, cron>>

\* RetryPendingSends is called: the caller goes on to sendMutex.Lock()
RetryPendingSends ==
    /\ Spawn("retryAPI", "api")
    /\ UNCHANGED <<sendMutex, pendingSends, serial, trigHolding, localSnapshots,
                   remoteSnapshots, now, alerts, lastAttempt, lastCall>>
    /\ UNCHANGED <<restoreOwn, monOwn, cron>>

\* TriggerSnapshot, first half: sendMutex.TryLock()
TriggerSnapshotTryLock ==
    /\ ~trigHolding
    /\ MaySpawn
    /\ IF sendMutex
       THEN /\ lastCall' = [op |-> "TriggerSnapshot", err |-> "already in progress"]
            /\ UNCHANGED <<sendMutex, trigHolding>>
       ELSE /\ sendMutex' = TRUE
            /\ trigHolding' = TRUE
            /\ UNCHANGED lastCall
    /\ UNCHANGED <<pendingSends, procs, started, serial, localSnapshots, remoteSnapshots,
                   now, alerts, lastAttempt>>
    /\ UNCHANGED <<restoreOwn, monOwn, cron>>

\* TriggerSnapshot, second half: sendMutex.Unlock(); go s.performSnapshot(); return nil
TriggerSnapshotGo ==
    /\ trigHolding
    /\ trigHolding' = FALSE
    /\ sendMutex' = FALSE
    /\ Spawn("snapshot", "trigger")
    /\ lastCall' = [op |-> "TriggerSnapshot", err |-> "nil"]
    /\ UNCHANGED <<pendingSends, serial, localSnapshots, remoteSnapshots, now, alerts,
                   lastAttempt>>
    /\ UNCHANGED <<restoreOwn, monOwn, cron>>

\* where a goroutine goes once it holds the mutex
AfterLock(kind) ==
    IF Len(pendingSends) > 0 THEN "loop"
    ELSE IF kind = "snapshot" THEN "create" ELSE "unlock"

\* no mutual exclusion: the goroutine goes ahead whether or not the mutex is held
LockNoWait(p) ==
    /\ procs[p].pc = "lock"
    /\ sendMutex' = TRUE
    /\ procs' = [procs EXCEPT ![p].pc = AfterLock(procs[p].kind), ![p].idx = 1,
                              ![p].still = <<>>]
    /\ UNCHANGED <<pendingSends, started, serial, trigHolding, localSnapshots,
                   remoteSnapshots, now, alerts, lastAttempt, lastCall>>
    /\ UNCHANGED <<restoreOwn, monOwn, cron>>

\* sendMutex.Lock() of performSnapshot, performRetry and RetryPendingSends, and the
\* test of len(s.pendingSends) that follows it
Lock(p) ==
    /\ procs[p].pc = "lock"
    /\ ~sendMutex
    /\ sendMutex' = TRUE
    /\ procs' = [procs EXCEPT ![p].pc = AfterLock(procs[p].kind), ![p].idx = 1,
                              ![p].still = <<>>]
    /\ UNCHANGED <<pendingSends, started, serial, trigHolding, localSnapshots,
                   remoteSnapshots, now, alerts, lastAttempt, lastCall>>
    /\ UNCHANGED <<restoreOwn, monOwn, cron>>

\* one iteration of the loop of retryPendingSendsUnsafe; the last one stores stillPending
RetryStep(p) ==
    /\ procs[p].pc = "loop"
    /\ procs[p].idx <= Len(pendingSends)
    /\ \E o \in SendOutcomes :
        /\ OutcomeAllowed(o)
        /\ StreamAllowed(pendingSends[procs[p].idx], o)
        /\ LET snapshotName == pendingSends[procs[p].idx]
               a == Attempt(snapshotName, o)
               stillPending == StillPending(procs[p].still, snapshotName, a.ok)
               last == procs[p].idx = Len(pendingSends)
           IN  /\ lastAttempt' = a
               /\ remoteSnapshots' = RemoteAfter(a, o)
               /\ alerts' = IF a.ok THEN SendSyncSuccess(snapshotName)
                            ELSE alerts
               /\ pendingSends' = IF last THEN stillPending ELSE pendingSends
               /\ procs' = [procs EXCEPT
                     ![p].inCall = FALSE,
                     ![p].still = IF last THEN <<>> ELSE stillPending,
                     ![p].idx = IF last THEN 0 ELSE procs[p].idx + 1,
                     ![p].pc = IF ~last THEN "loop"
                               ELSE IF procs[p].kind = "snapshot" THEN "create"
                               ELSE "unlock"]
    /\ UNCHANGED <<sendMutex, started, serial, trigHolding, localSnapshots, now, lastCall>>
    /\ UNCHANGED <<restoreOwn, monOwn, cron>>

\* a slip: the name of the snapshot that could not be created is queued for retry
CreateSnapshotQueues(p) ==
    /\ procs[p].pc = "create"
    /\ \E fails \in BOOLEAN :
        LET snapshotName == now
        IN  /\ NameTaken(snapshotName, localSnapshots) => fails
            /\ IF fails
               THEN /\ alerts' = SendSyncFailure(snapshotName)
                    /\ pendingSends' = Append(pendingSends, snapshotName)
                    /\ procs' = [procs EXCEPT ![p].pc = "unlock"]
                    /\ UNCHANGED localSnapshots
               ELSE /\ localSnapshots' = Append(localSnapshots, snapshotName)
                    /\ procs' = [procs EXCEPT ![p].pc = "send", ![p].snap = snapshotName]
                    /\ UNCHANGED <<alerts, pendingSends>>
    /\ UNCHANGED <<sendMutex, started, serial, trigHolding, remoteSnapshots,
                   now, lastAttempt, lastCall>>
    /\ UNCHANGED <<restoreOwn, monOwn, cron>>

\* performSnapshot: the name from the clock, and zfsManager.CreateSnapshot, which fails
\* when the environment says so and always when the name is taken
CreateSnapshot(p) ==
    /\ procs[p].pc = "create"
    /\ \E fails \in BOOLEAN :
        LET snapshotName == now
        IN  /\ NameTaken(snapshotName, localSnapshots) => fails
            /\ IF fails
               THEN /\ alerts' = SendSyncFailure(snapshotName)
                    /\ procs' = [procs EXCEPT ![p].pc = "unlock"]
                    /\ UNCHANGED localSnapshots
               ELSE /\ localSnapshots' = Append(localSnapshots, snapshotName)
                    /\ procs' = [procs EXCEPT ![p].pc = "send", ![p].snap = snapshotName]
                    /\ UNCHANGED alerts
    /\ UNCHANGED <<sendMutex, pendingSends, started, serial, trigHolding, remoteSnapshots,
                   now, lastAttempt, lastCall>>
    /\ UNCHANGED <<restoreOwn, monOwn, cron>>

\* performSnapshot from s.sendSnapshot(snapshotName) to its return
SendNew(p) ==
    /\ procs[p].pc = "send"
    /\ \E o \in SendOutcomes, listErr \in BOOLEAN :
        /\ OutcomeAllowed(o)
        /\ StreamAllowed(procs[p].snap, o)
        /\ LET snapshotName == procs[p].snap
               a == Attempt(snapshotName, o)
           IN  /\ remoteSnapshots' = RemoteAfter(a, o)
               /\ IF a.ok
                  THEN /\ alerts' = SendSyncSuccess(snapshotName)
                       /\ \E undestroyed \in SUBSET ToDelete(localSnapshots) :
                            /\ localSnapshots' =
                                 cleanupOldSnapshots(localSnapshots, listErr, undestroyed)
                            /\ lastAttempt' = [a EXCEPT !.prune =
                                 PruneResult(localSnapshots, listErr, undestroyed)]
                       /\ UNCHANGED pendingSends
                  ELSE /\ lastAttempt' = a
                       /\ alerts' = SendSyncFailure(snapshotName)
                       /\ pendingSends' = QueueFailed(pendingSends, snapshotName)
                       /\ UNCHANGED localSnapshots
    /\ procs' = [procs EXCEPT ![p].pc = "unlock", ![p].inCall = FALSE]
    /\ UNCHANGED <<sendMutex, started, serial, trigHolding, now, lastCall>>
    /\ UNCHANGED <<restoreOwn, monOwn, cron>>

\* a slip: the function returns without the deferred Unlock
ReturnLocked(p) ==
    /\ procs[p].pc = "unlock"
    /\ procs' = [procs EXCEPT ![p] = DoneProc]
    /\ UNCHANGED <<sendMutex, pendingSends, started, serial, trigHolding, localSnapshots,
                   remoteSnapshots, now, alerts, lastAttempt, lastCall>>
    /\ UNCHANGED <<restoreOwn, monOwn, cron>>

\* the deferred sendMutex.Unlock(); RetryPendingSends returns to its caller
Unlock(p) ==
    /\ procs[p].pc = "unlock"
    /\ sendMutex' = FALSE
    /\ procs' = [procs EXCEPT ![p] = DoneProc]
    /\ lastCall' = IF procs[p].kind = "retryAPI"
                   THEN [op |-> "RetryPendingSends",
                         err |-> IF Len(pendingSends) > 0 THEN "still failed" ELSE "nil"]
                   ELSE lastCall
    /\ UNCHANGED <<pendingSends, started, serial, trigHolding, localSnapshots,
                   remoteSnapshots, now, alerts, lastAttempt>>
    /\ UNCHANGED <<restoreOwn, monOwn, cron>>

\* the clock advances
Tick ==
    /\ now < FirstStamp + MaxTicks
    /\ now' = now + 1
    /\ UNCHANGED <<sendMutex, pendingSends, procs, started, serial, trigHolding,
                   localSnapshots, remoteSnapshots, alerts, lastAttempt, lastCall>>
    /\ UNCHANGED <<restoreOwn, monOwn, cron>>

SchedNext ==
    \/ CronSnapshot
    \/ CronRetry
    \/ RetryPendingSends
    \/ TriggerSnapshotTryLock
    \/ TriggerSnapshotGo
    \/ \E p \in Procs : Lock(p)
    \/ \E p \in Procs : RetryStep(p)
    \/ \E p \in Procs : CreateSnapshot(p)
    \/ \E p \in Procs : SendNew(p)
    \/ \E p \in Procs : Unlock(p)
    \/ Tick

SchedSpec == SchedInit /\ [][SchedNext]_vars

\* the runs the cron schedule starts, one after another
PlanNext ==
    \/ CronSnapshot
    \/ CronRetry
    \/ \E p \in Procs : Lock(p)
    \/ \E p \in Procs : RetryStep(p)
    \/ \E p \in Procs : CreateSnapshot(p)
    \/ \E p \in Procs : SendNew(p)
    \/ \E p \in Procs : Unlock(p)
    \/ Tick

PlanSpec == PlanInit /\ [][PlanNext]_vars

\* the cron schedule goes on: the goroutines that have returned are forgotten, and the
\* alerts are counted anew
CronGoesOn ==
    /\ serial
    /\ started = RunLimit
    /\ \A p \in Procs : procs[p].pc \in {"idle", "done"}
    /\ started' = 0
    /\ procs' = [p \in Procs |-> IdleProc]
    /\ alerts' = [alerts EXCEPT !.n = 0]
    /\ UNCHANGED <<sendMutex, pendingSends, serial, trigHolding, localSnapshots,
                   remoteSnapshots, now, lastAttempt, lastCall>>
    /\ UNCHANGED <<restoreOwn, monOwn, cron>>

\* a new scheduler whose cron schedule fires for ever, one run after another
LiveInit ==
    /\ SchedNew
    /\ RestoreUnused
    /\ MonitorNew
    /\ serial = TRUE
    /\ localSnapshots = Prefix(InitLocal)
    /\ remoteSnapshots \in {<<>>, <<1>>}

LiveNext ==
    \/ CronSnapshot
    \/ CronRetry
    \/ CronGoesOn
    \/ \E p \in Procs : Lock(p)
    \/ \E p \in Procs : RetryStep(p)
    \/ \E p \in Procs : CreateSnapshot(p)
    \/ \E p \in Procs : SendNew(p)
    \/ \E p \in Procs : Unlock(p)
    \/ Tick

\* cron starts the runs it has scheduled, and a goroutine that can go on does
LiveSpec == LiveInit /\ [][LiveNext]_vars /\ WF_vars(LiveNext)

\* how far from maxSnapshots the dataset starts
PruneSlack == 1

\* a scheduler that has been running for a while: the dataset holds about maxSnapshots
\* snapshots, and the send of one of them may have failed so far
PruneInit ==
    /\ RestoreUnused
    /\ MonitorNew
    /\ cron = StartedCron
    /\ sendMutex = FALSE
    /\ procs = [p \in Procs |-> IdleProc]
    /\ started = 0
    /\ trigHolding = FALSE
    /\ alerts = [n |-> 0, kind |-> "none", snap |-> NoName]
    /\ lastAttempt = NoAttempt
    /\ lastCall = NoCall
    /\ serial = TRUE
    /\ now = maxSnapshots + PruneSlack + 1
    /\ \E k \in (maxSnapshots - PruneSlack)..(maxSnapshots + PruneSlack) :
         /\ localSnapshots = Prefix(k)
         /\ pendingSends \in {<<>>, <<1>>, <<k>>}
    /\ remoteSnapshots \in {<<>>, <<2>>}

PruneNext ==
    \/ CronSnapshot
    \/ CronRetry
    \/ \E p \in Procs : Lock(p)
    \/ \E p \in Procs : RetryStep(p)
    \/ \E p \in Procs : CreateSnapshot(p)
    \/ \E p \in Procs : SendNew(p)
    \/ \E p \in Procs : Unlock(p)

PruneSpec == PruneInit /\ [][PruneNext]_vars

(***************************************************************************)
(* Restore manager.                                                        *)
(***************************************************************************)
\* zfsManager.ListSnapshots: it lists the configured dataset only, so every Snapshot
\* it returns carries that dataset's name
ListSnapshots == [i \in 1..Len(localSnapshots) |->
                     [Name |-> localSnapshots[i], Dataset |-> Dataset]]

\* the local datasets as they are
DatasetExists(d) == d = Dataset \/ otherExists
SnapshotsOf(d) == IF d = Dataset THEN localSnapshots ELSE otherSnapshots

\* the dataset as it is: it exists, has a snapshot, and zfs diff against its latest
\* snapshot reports nothing
CleanTarget(d) == DatasetExists(d) /\ SnapshotsOf(d) # <<>> /\ ~dirty[d]

\* RestoreManager.checkTargetDatasetExists: a failed listing counts as "does not exist"
checkTargetDatasetExists(dataset, listErr, snapshots) ==
    IF listErr THEN FALSE
    ELSE \E i \in 1..Len(snapshots) : snapshots[i].Dataset = dataset

\* RestoreManager.checkForUncommittedData: "err", or whether the target holds uncommitted
\* data; hasChanges is the answer of zfs diff against the target's snapshot
checkForUncommittedData(dataset, listErr, snapshots, diffErr, hasChanges) ==
    IF listErr THEN "err"
    ELSE IF ~\E i \in 1..Len(snapshots) : snapshots[i].Dataset = dataset THEN "yes"
    ELSE IF diffErr THEN "err"
    ELSE IF hasChanges THEN "yes" ELSE "no"

\* RestoreManager.verifyRestore: the error it returns
verifyRestore(dataset, snapshotName, listErr, snapshots) ==
    IF listErr THEN "failed to list snapshots after restore"
    ELSE IF \E i \in 1..Len(snapshots) :
               snapshots[i].Dataset = dataset /\ snapshots[i].Name = snapshotName
    THEN "nil"
    ELSE "restored snapshot not found in target dataset"

\* RestoreManager.failJob, job.Status = "failed" and job.Error = err; its third
\* assignment, of job.EndTime, is the step the goroutine takes next
failJob(j, err) ==
    [jobs EXCEPT ![j].Status = "failed", ![j].Error = err]

SetStatus(j, status, progress) ==
    [jobs EXCEPT ![j].Status = status, ![j].Progress = progress]

\* a performRestore goroutine moves on, or returns
Move(w, pc) == (workers \ {w}) \cup {[w EXCEPT !.pc = pc, !.inCall = FALSE]}
Return(w) == workers \ {w}

\* a slip: the goroutine starts at the transfer
performRestoreAtTransfer(j) == [job |-> j, pc |-> "restore", inCall |-> FALSE]

\* go r.performRestore(job): a goroutine at the top of performRestore (inCall: it is
\* inside a call of the transport that has not returned)
performRestore(j) == [job |-> j, pc |-> "start", inCall |-> FALSE]

restoreEnv == <<dirty, otherExists, otherSnapshots, sourceSnapshots, localSnapshots,
                remoteSnapshots, now>>

\* generateJobID: "restore_" and the reading of the wall clock; two calls that read the
\* same value give the same ID
generateJobID == now

\* RestoreSnapshotFromDataset (tracked = FALSE) and StartRestoreFromDatasetWithTracking
\* (tracked = TRUE): the job, its worker, and for a tracked job its table entry and its
\* clean-up goroutine
StartJob(tracked, sourceDataset, snapshotName, targetDataset) ==
    /\ LET j == nJobs + 1
           id == generateJobID
       IN  /\ nJobs' = j
           /\ jobs' = [jobs EXCEPT ![j] =
                         [NoJob EXCEPT !.ID = id, !.SnapshotName = snapshotName,
                                       !.SourceDataset = sourceDataset,
                                       !.TargetDataset = targetDataset,
                                       !.Status = "starting", !.StartTime = now,
                                       !.tracked = tracked]]
           /\ workers' = workers \cup {performRestore(j)}
           /\ activeJobs' = IF tracked THEN [activeJobs EXCEPT ![id] = j] ELSE activeJobs
           /\ evictors' = IF tracked THEN evictors \cup {j} ELSE evictors
    /\ restoreCall' = NoRestoreCall
    /\ UNCHANGED restoreLog
    /\ UNCHANGED restoreEnv
    /\ UNCHANGED tableUse
    /\ UNCHANGED <<schedOwn, monOwn, cron>>

\* a restore is requested, with or without tracking
StartRestore(tracked, sourceDataset, snapshotName, targetDataset) ==
    /\ nJobs < MaxJobs
    /\ StartJob(tracked, sourceDataset, snapshotName, targetDataset)

\* StartRestoreWithTracking: a tracked restore from the default remote dataset
StartRestoreWithTracking(snapshotName, targetDataset) ==
    /\ nJobs < MaxTableJobs
    /\ StartJob(TRUE, DefaultSource, snapshotName, targetDataset)

\* time.Sleep(1 * time.Hour), in ticks of the clock: a job can end within the hour
\* of its start and later than its start
Retention == 2

\* the goroutine of StartRestoreFromDatasetWithTracking wakes up after its hour
Evict(j) ==
    /\ j \in evictors
    /\ now >= jobs[j].StartTime + Retention
    /\ evictors' = evictors \ {j}
    /\ activeJobs' = IF jobs[j].Status \in {"completed", "failed"}
                     THEN [activeJobs EXCEPT ![jobs[j].ID] = 0]
                     ELSE activeJobs
    /\ restoreCall' = NoRestoreCall
    /\ UNCHANGED <<jobs, nJobs, workers, restoreLog>>
    /\ UNCHANGED restoreEnv
    /\ UNCHANGED tableUse
    /\ UNCHANGED <<schedOwn, monOwn, cron>>

ConfirmReturn(jobID, err) ==
    [op |-> "ConfirmDestructiveRestore", id |-> jobID, err |-> err]

\* a slip: the job's status is not looked at
ConfirmAnyStatus(jobID) ==
    /\ IF jobID \notin JobIDs \/ activeJobs[jobID] = 0
       THEN /\ restoreCall' = ConfirmReturn(jobID, "not found")
            /\ UNCHANGED <<jobs, workers>>
       ELSE LET j == activeJobs[jobID]
            IN  /\ restoreCall' = ConfirmReturn(jobID, "nil")
                /\ jobs' = [jobs EXCEPT ![j].ForceConfirmed = TRUE,
                                        ![j].RequiresConfirm = FALSE,
                                        ![j].SafetyWarning = FALSE]
                /\ workers' = workers \cup {performRestore(j)}
    /\ UNCHANGED <<nJobs, activeJobs, evictors, restoreLog>>
    /\ UNCHANGED restoreEnv
    /\ UNCHANGED tableUse
    /\ UNCHANGED <<schedOwn, monOwn, cron>>

\* RestoreManager.ConfirmDestructiveRestore
ConfirmDestructiveRestore(jobID) ==
    /\ IF jobID \notin JobIDs \/ activeJobs[jobID] = 0
       THEN /\ restoreCall' = ConfirmReturn(jobID, "not found")
            /\ UNCHANGED <<jobs, workers>>
       ELSE LET j == activeJobs[jobID]
            IN  IF jobs[j].Status # "awaiting_confirmation"
                THEN /\ restoreCall' = ConfirmReturn(jobID, "not awaiting confirmation")
                     /\ UNCHANGED <<jobs, workers>>
                ELSE IF ~jobs[j].RequiresConfirm
                THEN /\ restoreCall' = ConfirmReturn(jobID, "does not require confirmation")
                     /\ UNCHANGED <<jobs, workers>>
                ELSE /\ restoreCall' = ConfirmReturn(jobID, "nil")
                     /\ jobs' = [jobs EXCEPT ![j].ForceConfirmed = TRUE,
                                             ![j].RequiresConfirm = FALSE,
                                             ![j].SafetyWarning = FALSE]
                     /\ workers' = workers \cup {performRestore(j)}
    /\ UNCHANGED <<nJobs, activeJobs, evictors, restoreLog>>
    /\ UNCHANGED restoreEnv
    /\ UNCHANGED tableUse
    /\ UNCHANGED <<schedOwn, monOwn, cron>>

\* performRestore up to its first call: job.Status = "safety_check"
WorkerStart(w) ==
    /\ w \in workers /\ w.pc = "start"
    /\ jobs' = SetStatus(w.job, "safety_check", 5)
    /\ workers' = Move(w, "exists")
    /\ restoreCall' = NoRestoreCall
    /\ UNCHANGED <<nJobs, activeJobs, evictors, restoreLog>>
    /\ UNCHANGED restoreEnv
    /\ UNCHANGED tableUse
    /\ UNCHANGED <<schedOwn, monOwn, cron>>

\* performRestore: checkTargetDatasetExists; when the target is taken not to exist the
\* safety check is over and the job goes on to "verifying"
WorkerExists(w) ==
    /\ w \in workers /\ w.pc = "exists"
    /\ \E listErr \in BOOLEAN :
         IF checkTargetDatasetExists(jobs[w.job].TargetDataset, listErr, ListSnapshots)
         THEN /\ workers' = Move(w, "uncommitted")
              /\ UNCHANGED jobs
         ELSE /\ workers' = Move(w, "enumerate")
              /\ jobs' = [SetStatus(w.job, "verifying", 10) EXCEPT
                             ![w.job].cleanTarget = CleanTarget(jobs[w.job].TargetDataset),
                             ![w.job].listFailed = listErr]
    /\ restoreCall' = NoRestoreCall
    /\ UNCHANGED <<nJobs, activeJobs, evictors, restoreLog>>
    /\ UNCHANGED restoreEnv
    /\ UNCHANGED tableUse
    /\ UNCHANGED <<schedOwn, monOwn, cron>>

\* performRestore: hasUncommittedData && !job.ForceConfirmed
Gate(j, uncommitted) == uncommitted = "yes" /\ ~jobs[j].ForceConfirmed

\* performRestore: checkForUncommittedData and the confirmation gate
WorkerUncommitted(w) ==
    /\ w \in workers /\ w.pc = "uncommitted"
    /\ \E listErr, diffErr \in BOOLEAN :
         LET j == w.job
             u == checkForUncommittedData(jobs[j].TargetDataset, listErr, ListSnapshots,
                                          diffErr, dirty[jobs[j].TargetDataset])
         IN  IF u = "err"
             THEN /\ jobs' = failJob(j, "failed to check for uncommitted data")
                  /\ workers' = Move(w, "endTime")
             ELSE IF Gate(j, u)
             THEN /\ jobs' = [jobs EXCEPT ![j].RequiresConfirm = TRUE,
                                          ![j].Status = "awaiting_confirmation",
                                          ![j].hasUncommittedData = u,
                                          ![j].cleanTarget = (u = "no")]
                  /\ workers' = Move(w, "warn")
             ELSE /\ jobs' = [jobs EXCEPT ![j].Status = "verifying", ![j].Progress = 10,
                                          ![j].hasUncommittedData = u,
                                          ![j].cleanTarget = (u = "no")]
                  /\ workers' = Move(w, "enumerate")
    /\ restoreCall' = NoRestoreCall
    /\ UNCHANGED <<nJobs, activeJobs, evictors, restoreLog>>
    /\ UNCHANGED restoreEnv
    /\ UNCHANGED tableUse
    /\ UNCHANGED <<schedOwn, monOwn, cron>>

\* a slip: no return after the warning, the goroutine goes on to step 1
WorkerWarnGoesOn(w) ==
    /\ w \in workers /\ w.pc = "warn"
    /\ jobs' = [jobs EXCEPT ![w.job].SafetyWarning = TRUE, ![w.job].Status = "verifying",
                            ![w.job].Progress = 10]
    /\ workers' = Move(w, "enumerate")
    /\ restoreCall' = NoRestoreCall
    /\ UNCHANGED <<nJobs, activeJobs, evictors, restoreLog>>
    /\ UNCHANGED restoreEnv
    /\ UNCHANGED tableUse
    /\ UNCHANGED <<schedOwn, monOwn, cron>>

\* performRestore: job.SafetyWarning = ...; return, to wait for the confirmation
WorkerWarn(w) ==
    /\ w \in workers /\ w.pc = "warn"
    /\ jobs' = [jobs EXCEPT ![w.job].SafetyWarning = TRUE]
    /\ workers' = Return(w)
    /\ restoreCall' = NoRestoreCall
    /\ UNCHANGED <<nJobs, activeJobs, evictors, restoreLog>>
    /\ UNCHANGED restoreEnv
    /\ UNCHANGED tableUse
    /\ UNCHANGED <<schedOwn, monOwn, cron>>

\* performRestore, step 1: the snapshots of the source the job names, as the transport's
\* GetSnapshotsForDataset or ListRemoteSnapshots returns them
SourceList(j) == IF jobs[j].SourceDataset # DefaultSource
                 THEN sourceSnapshots ELSE remoteSnapshots

\* a slip: the loop over the list is skipped
FoundAlways(snapshotName, listed) == TRUE

\* performRestore, step 1: for _, snap := range remoteSnapshots { if snap == job.SnapshotName
Found(snapshotName, listed) == \E i \in 1..Len(listed) : listed[i] = snapshotName

\* performRestore, step 1: the requested snapshot must be among those of the source
WorkerEnumerate(w) ==
    /\ w \in workers /\ w.pc = "enumerate"
    /\ \E remoteErr \in BOOLEAN :
         LET j == w.job
             listed == SourceList(j)
         IN  IF remoteErr
             THEN /\ jobs' = failJob(j, "failed to list remote snapshots")
                  /\ workers' = Move(w, "endTime")
             ELSE IF ~Found(jobs[j].SnapshotName, listed)
             THEN /\ jobs' = failJob(j, "not found on remote server")
                  /\ workers' = Move(w, "endTime")
             ELSE /\ jobs' = SetStatus(j, "preparing", 20)
                  /\ workers' = Move(w, "prepare")
    /\ restoreCall' = NoRestoreCall
    /\ UNCHANGED <<nJobs, activeJobs, evictors, restoreLog>>
    /\ UNCHANGED restoreEnv
    /\ UNCHANGED tableUse
    /\ UNCHANGED <<schedOwn, monOwn, cron>>

\* performRestore, step 2: datasetExists never fails and its answer is only logged
WorkerPrepare(w) ==
    /\ w \in workers /\ w.pc = "prepare"
    /\ jobs' = SetStatus(w.job, "restoring", 30)
    /\ workers' = Move(w, "restore")
    /\ restoreCall' = NoRestoreCall
    /\ UNCHANGED <<nJobs, activeJobs, evictors, restoreLog>>
    /\ UNCHANGED restoreEnv
    /\ UNCHANGED tableUse
    /\ UNCHANGED <<schedOwn, monOwn, cron>>

\* a slip: the destructive transport call whatever the job says
UseForceAlways(j) == TRUE

\* performRestore, step 3: if job.ForceConfirmed, the transport's RestoreSnapshot /
\* RestoreSnapshotFromDataset, else its ...Safe variant
UseForce(j) == jobs[j].ForceConfirmed

\* SSHTransport.restoreSnapshotFromDataset: zfs receive without -F does not overwrite a
\* target that holds changes of its own
MaySucceed(target, force) == force \/ ~(DatasetExists(target) /\ dirty[target])

\* the target once the stream is received
Received(target, name, force) ==
    IF force \/ name \in Range(SnapshotsOf(target)) THEN <<name>>
    ELSE Append(SnapshotsOf(target), name)

\* performRestore, step 3: the transfer
WorkerRestore(w) ==
    /\ w \in workers /\ w.pc = "restore"
    /\ LET j == w.job
           force == UseForce(j)
           target == jobs[j].TargetDataset
           name == jobs[j].SnapshotName
       IN  /\ restoreLog' = restoreLog \cup {[job |-> j, force |-> force]}
           /\ \E ok \in BOOLEAN :
                /\ ok => MaySucceed(target, force)
                /\ IF ok
                   THEN /\ jobs' = SetStatus(j, "verifying", 90)
                        /\ workers' = Move(w, "verify")
                        /\ dirty' = [dirty EXCEPT ![target] = FALSE]
                        /\ IF target = Dataset
                           THEN /\ localSnapshots' = Received(target, name, force)
                                /\ UNCHANGED <<otherExists, otherSnapshots>>
                           ELSE /\ otherSnapshots' = Received(target, name, force)
                                /\ otherExists' = TRUE
                                /\ UNCHANGED localSnapshots
                   ELSE /\ jobs' = failJob(j, "restore failed")
                        /\ workers' = Move(w, "endTime")
                        /\ UNCHANGED <<dirty, otherExists, otherSnapshots, localSnapshots>>
    /\ restoreCall' = NoRestoreCall
    /\ UNCHANGED <<nJobs, activeJobs, evictors, sourceSnapshots, remoteSnapshots, now>>
    /\ UNCHANGED tableUse
    /\ UNCHANGED <<schedOwn, monOwn, cron>>

\* performRestore, steps 4 and 5: verifyRestore, then "completed"
WorkerVerify(w) ==
    /\ w \in workers /\ w.pc = "verify"
    /\ \E listErr \in BOOLEAN :
         LET j == w.job
             err == verifyRestore(jobs[j].TargetDataset, jobs[j].SnapshotName, listErr,
                                  ListSnapshots)
         IN  IF err = "nil"
             THEN jobs' = [jobs EXCEPT ![j].Status = "completed", ![j].Progress = 100]
             ELSE jobs' = failJob(j, err)
    /\ workers' = Move(w, "endTime")
    /\ restoreCall' = NoRestoreCall
    /\ UNCHANGED <<nJobs, activeJobs, evictors, restoreLog>>
    /\ UNCHANGED restoreEnv
    /\ UNCHANGED tableUse
    /\ UNCHANGED <<schedOwn, monOwn, cron>>

\* a slip: the goroutine returns without the assignment
ReturnUnstamped(w) ==
    /\ w \in workers /\ w.pc = "endTime"
    /\ workers' = Return(w)
    /\ restoreCall' = NoRestoreCall
    /\ UNCHANGED <<jobs, nJobs, activeJobs, evictors, restoreLog>>
    /\ UNCHANGED restoreEnv
    /\ UNCHANGED tableUse
    /\ UNCHANGED <<schedOwn, monOwn, cron>>

\* endTime := time.Now(); job.EndTime = &endTime, the statement that follows the
\* assignment of a terminal status in performRestore, in failJob and in the deferred
\* function; the goroutine returns
WorkerEndTime(w) ==
    /\ w \in workers /\ w.pc = "endTime"
    /\ jobs' = [jobs EXCEPT ![w.job].EndTime = now]
    /\ workers' = Return(w)
    /\ restoreCall' = NoRestoreCall
    /\ UNCHANGED <<nJobs, activeJobs, evictors, restoreLog>>
    /\ UNCHANGED restoreEnv
    /\ UNCHANGED tableUse
    /\ UNCHANGED <<schedOwn, monOwn, cron>>

\* where performRestore is inside a call into the transport or into zfs; the statements
\* of "start" and of "warn" assign fields of the job and format a string
Calling == {"exists", "uncommitted", "enumerate", "prepare", "restore", "verify"}

\* a slip: no recover, the panic ends the process with all its goroutines
PanicUnrecovered(w) ==
    /\ w \in workers /\ w.pc \in Calling
    /\ workers' = {}
    /\ evictors' = {}
    /\ restoreCall' = [op |-> "panic", id |-> jobs[w.job].ID, err |-> "nil"]
    /\ UNCHANGED <<jobs, nJobs, activeJobs, restoreLog>>
    /\ UNCHANGED restoreEnv
    /\ UNCHANGED tableUse
    /\ UNCHANGED <<schedOwn, monOwn, cron>>

\* performRestore: the call the goroutine is in panics, before it has changed anything;
\* the deferred function recovers, marks the job and the goroutine ends
WorkerPanic(w) ==
    /\ w \in workers /\ w.pc \in Calling
    /\ jobs' = [jobs EXCEPT ![w.job].Status = "failed", ![w.job].Error = "restore panic"]
    /\ workers' = Move(w, "endTime")
    /\ restoreCall' = [op |-> "panic", id |-> jobs[w.job].ID, err |-> "nil"]
    /\ UNCHANGED <<nJobs, activeJobs, evictors, restoreLog>>
    /\ UNCHANGED restoreEnv
    /\ UNCHANGED tableUse
    /\ UNCHANGED <<schedOwn, monOwn, cron>>

\* somebody writes to a local dataset, or snapshots it or reverts it
TargetChange(d) ==
    /\ DatasetExists(d)
    /\ dirty' = [dirty EXCEPT ![d] = ~dirty[d]]
    /\ restoreCall' = NoRestoreCall
    /\ UNCHANGED <<jobs, nJobs, activeJobs, workers, evictors, restoreLog, otherExists,
                   otherSnapshots, sourceSnapshots, localSnapshots,
                   remoteSnapshots, now>>
    /\ UNCHANGED tableUse
    /\ UNCHANGED <<schedOwn, monOwn, cron>>

\* a restore manager on the datasets as it may find them
RestoreInit ==
    /\ SchedNew
    /\ serial = FALSE
    /\ RestoreNew
    /\ MonitorNew
    /\ localSnapshots \in {Prefix(k) : k \in 0..1}
    /\ remoteSnapshots = <<2>>
    /\ sourceSnapshots = <<1, 2>>
    /\ dirty = [d \in Datasets |-> FALSE]
    /\ otherExists \in BOOLEAN
    /\ otherSnapshots \in IF otherExists THEN {<<>>, <<1>>} ELSE {<<>>}

RestoreNext ==
    \/ \E tracked \in BOOLEAN, src \in SourceDatasets, name \in RestoreNames,
          target \in Datasets : StartRestore(tracked, src, name, target)
    \/ \E j \in JobObjs : Evict(j)
    \/ \E id \in JobIDs \cup {NoName} : ConfirmDestructiveRestore(id)
    \/ \E w \in workers : WorkerStart(w)
    \/ \E w \in workers : WorkerExists(w)
    \/ \E w \in workers : WorkerUncommitted(w)
    \/ \E w \in workers : WorkerWarn(w)
    \/ \E w \in workers : WorkerEnumerate(w)
    \/ \E w \in workers : WorkerPrepare(w)
    \/ \E w \in workers : WorkerRestore(w)
    \/ \E w \in workers : WorkerVerify(w)
    \/ \E w \in workers : WorkerEndTime(w)
    \/ \E w \in workers : WorkerPanic(w)
    \/ \E d \in Datasets : TargetChange(d)
    \/ Tick

RestoreSpec == RestoreInit /\ [][RestoreNext]_vars

(***************************************************************************)
(* The job table under its callers: handlers of the web interface call      *)
(* GetJob and ListJobs while jobs are started and evicted.                  *)
(***************************************************************************)
Readers == {"GetJob", "ListJobs"}

\* GetJob, ListJobs: the lookup, or the iteration, begins; there is no lock to take
TableReadBegin(r) ==
    /\ r \notin tableUse.readers
    /\ tableUse' = [tableUse EXCEPT !.readers = @ \cup {r}]
    /\ restoreCall' = NoRestoreCall
    /\ UNCHANGED <<jobs, nJobs, activeJobs, workers, evictors, restoreLog>>
    /\ UNCHANGED restoreEnv
    /\ UNCHANGED <<schedOwn, monOwn, cron>>

\* GetJob, ListJobs: return
TableReadEnd(r) ==
    /\ r \in tableUse.readers
    /\ tableUse' = [tableUse EXCEPT !.readers = @ \ {r}]
    /\ restoreCall' = NoRestoreCall
    /\ UNCHANGED <<jobs, nJobs, activeJobs, workers, evictors, restoreLog>>
    /\ UNCHANGED restoreEnv
    /\ UNCHANGED <<schedOwn, monOwn, cron>>

\* a write of activeJobs is due: the insert for a new job, or the delete of a clean-up
\* goroutine that woke up
WriteDue ==
    \/ nJobs < MaxTableJobs
    \/ \E j \in evictors : /\ now >= jobs[j].StartTime + Retention
                            /\ jobs[j].Status \in {"completed", "failed"}

\* the write is made while a read is in progress and the runtime notices: "fatal error:
\* concurrent map read and map write", which ends the process; when it does not notice,
\* the write is the step of StartJob or of Evict
ConcurrentMapWrite ==
    /\ tableUse.readers # {}
    /\ WriteDue
    /\ tableUse' = [tableUse EXCEPT !.fatal = TRUE]
    /\ restoreCall' = NoRestoreCall
    /\ UNCHANGED <<jobs, nJobs, activeJobs, workers, evictors, restoreLog>>
    /\ UNCHANGED restoreEnv
    /\ UNCHANGED <<schedOwn, monOwn, cron>>

\* the process runs
Alive == ~tableUse.fatal

\* a restore manager whose target holds no changes: no job has to wait for a
\* confirmation, and every call of ConfirmDestructiveRestore is a lookup that refuses
TableInit ==
    /\ SchedNew
    /\ serial = FALSE
    /\ RestoreNew
    /\ MonitorNew
    /\ localSnapshots = <<1>>
    /\ remoteSnapshots = <<1, 2>>
    /\ sourceSnapshots = <<>>
    /\ dirty = [d \in Datasets |-> FALSE]
    /\ otherExists = FALSE
    /\ otherSnapshots = <<>>

TableNext ==
    \/ Alive /\ StartRestoreWithTracking(2, Dataset)
    \/ Alive /\ \E j \in JobObjs : Evict(j)
    \/ Alive /\ \E id \in JobIDs : ConfirmDestructiveRestore(id)
    \/ Alive /\ \E w \in workers : WorkerStart(w)
    \/ Alive /\ \E w \in workers : WorkerExists(w)
    \/ Alive /\ \E w \in workers : WorkerUncommitted(w)
    \/ Alive /\ \E w \in workers : WorkerEnumerate(w)
    \/ Alive /\ \E w \in workers : WorkerPrepare(w)
    \/ Alive /\ \E w \in workers : WorkerRestore(w)
    \/ Alive /\ \E w \in workers : WorkerVerify(w)
    \/ Alive /\ \E w \in workers : WorkerEndTime(w)
    \/ Alive /\ \E w \in workers : WorkerPanic(w)
    \/ Alive /\ \E r \in Readers : TableReadBegin(r)
    \/ Alive /\ \E r \in Readers : TableReadEnd(r)
    \/ Alive /\ ConcurrentMapWrite
    \/ Alive /\ Tick

TableSpec == TableInit /\ [][TableNext]_vars

(***************************************************************************)
(* Properties of the scheduler's mutual exclusion.                         *)
(***************************************************************************)
Running == {p \in Procs : procs[p].pc \in InRun}

\* C1: whatever the interleaving of TriggerSnapshot calls and scheduled runs, at most
\* one run proceeds at a time and no accepted trigger (one that TriggerSnapshot
\* answered with nil) is left waiting for the send mutex behind another run.
C1_NoAcceptedTriggerWaits ==
    /\ Cardinality(Running) <= 1
    /\ \A p \in Procs :
          (procs[p].origin = "trigger" /\ procs[p].pc = "lock") => Running = {}

\* C2: at most one replication send is in flight: the critical sections of
\* performSnapshot, performRetry and RetryPendingSends never overlap, and a goroutine
\* is inside one only while the mutex is locked.
C2_SingleFlight ==
    /\ Cardinality(Running) <= 1
    /\ Running # {} => sendMutex /\ ~trigHolding

\* a run is about to send while another goroutine, of a retry, waits for the mutex
C2_Contention ==
    \E p, q \in Procs :
        /\ procs[p].pc = "send" /\ procs[p].kind = "snapshot"
        /\ procs[q].pc = "lock" /\ procs[q].kind \in {"retryCron", "retryAPI"}

(***************************************************************************)
(* Properties of the send plan.                                            *)
(***************************************************************************)
\* s is t with some elements left out
RECURSIVE IsSubSeq(_, _)
IsSubSeq(s, t) ==
    IF Len(s) = 0 THEN TRUE
    ELSE IF Len(t) = 0 THEN FALSE
    ELSE IF Head(s) = Head(t) THEN IsSubSeq(Tail(s), Tail(t))
    ELSE IsSubSeq(s, Tail(t))

\* goroutine p makes the step from s.sendSnapshot(snapshotName) to its return
SendsNew(p) == procs[p].pc = "send" /\ procs'[p].pc = "unlock"

\* the local snapshots that were there before the run created its own
Before(p) == SelectSeq(localSnapshots, LAMBDA n : n # procs[p].snap)

\* C8: when both enumerations succeed and the remote list is a non-empty sub-sequence
\* of the local snapshots [s1..sn] that preceded the run, with latest element sk, the
\* run that created s(n+1) sends incrementally from sk to s(n+1).
C8_IncrementalFromLatestCommon ==
    [][\A p \in Procs :
          ( /\ SendsNew(p)
            /\ ~lastAttempt'.enumErr /\ ~lastAttempt'.listErr
            /\ Len(remoteSnapshots) > 0
            /\ IsSubSeq(remoteSnapshots, Before(p)) )
          => /\ lastAttempt'.plan = "incr"
             /\ lastAttempt'.base = remoteSnapshots[Len(remoteSnapshots)]
             /\ lastAttempt'.snap = procs[p].snap
             /\ lastAttempt'.snap = localSnapshots[Len(localSnapshots)]]_vars

\* local [1, .., n], remote [1, .., n-1]: the new snapshot went out as an increment of n-1
C8_Example ==
    /\ localSnapshots = Append(Prefix(InitLocal), FirstStamp)
    /\ Len(remoteSnapshots) >= InitLocal - 1
    /\ SubSeq(remoteSnapshots, 1, InitLocal - 1) = Prefix(InitLocal - 1)
    /\ InitLocal \notin Range(remoteSnapshots)
    /\ lastAttempt.snap = FirstStamp
    /\ lastAttempt.plan = "incr"
    /\ lastAttempt.base = InitLocal - 1
    /\ lastAttempt.sent

\* C9: when the remote enumeration succeeds and is empty, or holds no name that is also
\* a local name, the new snapshot is sent in full and never incrementally.
C9_FullWhenNothingInCommon ==
    [][\A p \in Procs :
          ( /\ SendsNew(p)
            /\ ~lastAttempt'.enumErr
            /\ \/ Len(remoteSnapshots) = 0
               \/ /\ ~lastAttempt'.listErr
                  /\ Range(remoteSnapshots) \cap Range(localSnapshots) = {} )
          => /\ lastAttempt'.plan = "full"
             /\ lastAttempt'.base = NoName
             /\ lastAttempt'.snap = procs[p].snap]_vars

\* the remote side held only a snapshot the local side does not know, and the new
\* snapshot went out in full
C9_ForeignRemote ==
    /\ Len(remoteSnapshots) > 0
    /\ remoteSnapshots[1] \in ForeignNames
    /\ (Range(remoteSnapshots) \ {lastAttempt.snap}) \cap Range(localSnapshots) = {}
    /\ Len(localSnapshots) > 0
    /\ lastAttempt.snap = localSnapshots[Len(localSnapshots)]
    /\ lastAttempt.plan = "full"
    /\ lastAttempt.sent

\* C10: when the remote enumeration fails, neither sendFullSnapshot nor
\* sendIncrementalSnapshot is called, so no stream is opened and the transport is not
\* asked to send, and the run reports the failure of that snapshot.
C10_NoSendOnEnumerationError ==
    /\ [](lastAttempt.enumErr =>
            lastAttempt.plan = "none" /\ ~lastAttempt.sent /\ ~lastAttempt.ok)
    /\ [][\A p \in Procs :
            (SendsNew(p) /\ lastAttempt'.enumErr)
            => /\ alerts' = SendSyncFailure(procs[p].snap)
               /\ pendingSends' = Append(pendingSends, procs[p].snap)
               /\ remoteSnapshots' = remoteSnapshots]_vars

\* a run whose remote enumeration failed has reported the failure and queued the name
C10_EnumerationFailed ==
    /\ lastAttempt.enumErr
    /\ Len(localSnapshots) > 0
    /\ lastAttempt.snap = localSnapshots[Len(localSnapshots)]
    /\ alerts.kind = "failure" /\ alerts.snap = lastAttempt.snap
    /\ Len(pendingSends) > 0 /\ pendingSends[Len(pendingSends)] = lastAttempt.snap

(***************************************************************************)
(* Properties of the restore manager.                                      *)
(***************************************************************************)
\* no performRestore goroutine of job j is left
Returned(j) == ~\E w \in workers : w.job = j

\* the transport restore calls made for job j so far
TransfersOf(log, j) == {e \in log : e.job = j}

\* job j is in the table under its ID and ConfirmDestructiveRestore has just accepted it
Accepted(j) ==
    /\ restoreCall' = ConfirmReturn(jobs[j].ID, "nil")
    /\ restoreCall' # restoreCall
    /\ activeJobs[jobs[j].ID] = j

\* C3: a job without ForceConfirmed whose target dataset exists and has no snapshot of
\* its own goes from the safety check to awaiting_confirmation, and no transport
\* restore is invoked for it.
C3_SnapshotlessTargetAwaits ==
    \A j \in 1..nJobs :
        ( /\ DatasetExists(jobs[j].TargetDataset)
          /\ SnapshotsOf(jobs[j].TargetDataset) = <<>>
          /\ ~jobs[j].ForceConfirmed )
        => /\ jobs[j].Status \in {"starting", "safety_check", "awaiting_confirmation"}
           /\ TransfersOf(restoreLog, j) = {}

C5_AwaitingHalts ==
    /\ [](\A j \in JobObjs :
            jobs[j].Status = "awaiting_confirmation" =>
                /\ jobs[j].EndTime = NoTime /\ jobs[j].Error = "nil"
                /\ ~jobs[j].ForceConfirmed =>
                      \A w \in workers : w.job = j => w.pc = "warn")
    /\ [][\A j \in JobObjs :
            (jobs[j].Status = "awaiting_confirmation" /\ ~jobs'[j].ForceConfirmed)
            => /\ jobs'[j].Status = jobs[j].Status
               /\ jobs'[j].Progress = jobs[j].Progress
               /\ TransfersOf(restoreLog', j) = TransfersOf(restoreLog, j)]_vars

\* a job waits for its confirmation: its goroutine has returned
C5_Halted ==
    \E j \in JobObjs :
        /\ jobs[j].Status = "awaiting_confirmation"
        /\ jobs[j].RequiresConfirm /\ jobs[j].SafetyWarning /\ ~jobs[j].ForceConfirmed
        /\ \A w \in workers : w.job # j

\* C6: a ConfirmDestructiveRestore call returns nil only for an ID that is in the job
\* table, of a job whose status is awaiting_confirmation and whose RequiresConfirm is
\* true; a call that returns an error changes no job, not the table, and starts no
\* goroutine.
C6_ConfirmGuard ==
    [][(restoreCall' # restoreCall /\ restoreCall'.op = "ConfirmDestructiveRestore")
       => IF restoreCall'.err = "nil"
          THEN /\ restoreCall'.id \in JobIDs
               /\ activeJobs[restoreCall'.id] # 0
               /\ jobs[activeJobs[restoreCall'.id]].Status = "awaiting_confirmation"
               /\ jobs[activeJobs[restoreCall'.id]].RequiresConfirm
          ELSE UNCHANGED <<jobs, nJobs, activeJobs, workers, evictors, restoreLog>>]_vars

\* a second confirmation of the same job was refused
C6_RefusedSecondConfirm ==
    /\ restoreCall.op = "ConfirmDestructiveRestore"
    /\ restoreCall.err = "does not require confirmation"
    /\ \E j \in JobObjs : jobs[j].ID = restoreCall.id /\ jobs[j].ForceConfirmed

\* C7: a job leaves awaiting_confirmation only for safety_check, and reaches restoring
\* only from preparing, preparing only from the verification of the source snapshot,
\* and that only from safety_check; the transport restore is invoked only in restoring.
C7_ConfirmedRunStartsOver ==
    [][\A j \in JobObjs :
         /\ jobs'[j].Status # jobs[j].Status =>
              /\ jobs[j].Status = "awaiting_confirmation"
                    => jobs'[j].Status = "safety_check"
              /\ jobs'[j].Status = "restoring" => jobs[j].Status = "preparing"
              /\ jobs'[j].Status = "preparing"
                    => jobs[j].Status = "verifying" /\ jobs[j].Progress = 10
              /\ (jobs'[j].Status = "verifying" /\ jobs'[j].Progress = 10)
                    => jobs[j].Status = "safety_check"
              /\ (jobs'[j].Status = "verifying" /\ jobs'[j].Progress = 90)
                    => jobs[j].Status = "restoring"
         /\ TransfersOf(restoreLog', j) # TransfersOf(restoreLog, j)
              => jobs[j].Status = "restoring"]_vars

\* a confirmed job whose second safety check found the target clean has completed
C7_ResolvedThenCompleted ==
    \E j \in JobObjs :
        /\ jobs[j].Status = "completed" /\ jobs[j].EndTime # NoTime
        /\ jobs[j].ForceConfirmed
        /\ jobs[j].hasUncommittedData = "no"

(***************************************************************************)
(* Properties of the pending send queue.                                   *)
(***************************************************************************)
\* C11: when the send of the snapshot a run has created fails, whatever the reason, the
\* run calls SendSyncFailure for that snapshot and the name is in pendingSends, and it
\* is still there when the run returns.
C11_FailedSendIsQueued ==
    /\ [][\A p \in Procs :
            (SendsNew(p) /\ ~lastAttempt'.ok)
            => /\ lastAttempt'.snap = procs[p].snap
               /\ alerts' = SendSyncFailure(procs[p].snap)
               /\ procs[p].snap \in Range(pendingSends')]_vars
    /\ [][\A p \in Procs :
            ( /\ procs[p].pc = "unlock" /\ procs'[p].pc = "done"
              /\ procs[p].snap # NoName
              /\ lastAttempt.snap = procs[p].snap /\ ~lastAttempt.ok )
            => procs[p].snap \in Range(pendingSends')]_vars

\* a run is about to return after the transport, or the end of the stream, failed
C11_FailedAfterTransport ==
    \E p \in Procs :
        /\ procs[p].pc = "unlock" /\ procs[p].snap # NoName
        /\ lastAttempt.snap = procs[p].snap
        /\ lastAttempt.sent /\ ~lastAttempt.ok
        /\ alerts.kind = "failure" /\ alerts.snap = procs[p].snap
        /\ procs[p].snap \in Range(pendingSends)

\* C12: pendingSends holds every name at most once.
C12_QueueWithoutDuplicates == NoDup(pendingSends)

\* two names are pending and the drain has just failed for the first of them
C12_SecondFailure ==
    \E p \in Procs :
        /\ Len(pendingSends) >= 2
        /\ procs[p].pc = "loop" /\ procs[p].idx = 2
        /\ procs[p].still = <<pendingSends[1]>>

\* goroutine p makes one iteration of the loop of retryPendingSendsUnsafe
Retries(p) == procs[p].pc = "loop" /\ procs'[p] # procs[p]

\* C13: a drain attempts the queued names one by one in queue order; the names it keeps,
\* and stores as the queue when the loop ends, are those whose retry failed, in their
\* order; a successful retry sends one SendSyncSuccess for the name; and a name leaves
\* the queue only when the remote side has received it.
C13_DrainKeepsFailures ==
    /\ [][\A p \in Procs :
            Retries(p) =>
              LET idx == procs[p].idx
                  name == pendingSends[idx]
                  last == idx = Len(pendingSends)
                  kept == IF last THEN pendingSends' ELSE procs'[p].still
              IN  /\ lastAttempt'.snap = name
                  /\ ~last => (procs'[p].idx = idx + 1 /\ pendingSends' = pendingSends)
                  /\ last => procs'[p].pc # "loop"
                  /\ alerts' = IF lastAttempt'.ok THEN SendSyncSuccess(name) ELSE alerts
                  /\ IsSubSeq(kept, SubSeq(pendingSends, 1, idx))
                  /\ name \in Range(kept) <=> ~lastAttempt'.ok
                  /\ Range(kept) \ {name} = Range(procs[p].still) \ {name}]_vars
    /\ [][\A n \in Range(pendingSends) :
            n \notin Range(pendingSends') =>
                (n \in Range(remoteSnapshots') /\ \E p \in Procs : Retries(p))]_vars

\* in a drain of two names the first has been sent and the second is next
C13_FirstRetrySucceeded ==
    \E p \in Procs :
        /\ Len(pendingSends) = 2
        /\ procs[p].pc = "loop" /\ procs[p].idx = 2 /\ procs[p].still = <<>>
        /\ alerts.kind = "success" /\ alerts.snap = pendingSends[1]
        /\ pendingSends[1] \in Range(remoteSnapshots)

(***************************************************************************)
(* Properties of pruning.                                                  *)
(***************************************************************************)
\* C14: every name in pendingSends is the name of a local snapshot: nothing the
\* scheduler does, the pruning of a later successful run included, destroys a snapshot
\* whose name is pending.
C14_PendingSnapshotsKept == Range(pendingSends) \subseteq Range(localSnapshots)

\* the n most recently created of a list in creation order
MostRecent(local, n) ==
    IF Len(local) <= n THEN local ELSE SubSeq(local, Len(local) - n + 1, Len(local))

\* goroutine p makes the step that ends with the pruning step
Prunes(p) == SendsNew(p) /\ lastAttempt'.ok

\* C16, as stated: after the pruning step of a run at most maxSnapshots snapshots remain,
\* and they are the maxSnapshots most recently created ones.
C16_AlwaysTheMostRecent ==
    [][\A p \in Procs :
          Prunes(p) => /\ Len(localSnapshots') <= maxSnapshots
                       /\ localSnapshots' = MostRecent(localSnapshots, maxSnapshots)]_vars

\* C16, amended: after a pruning step in which ListSnapshots and every DestroySnapshot
\* succeeded at most maxSnapshots snapshots remain, and they are the maxSnapshots most
\* recently created ones; a pruning step in which one of them failed destroys nothing
\* but snapshots older than those.
C16_MostRecentUnlessDestroyFails ==
    [][\A p \in Procs :
          Prunes(p) =>
            /\ lastAttempt'.prune \in {"nothing", "done"}
                 => /\ Len(localSnapshots') <= maxSnapshots
                    /\ localSnapshots' = MostRecent(localSnapshots, maxSnapshots)
            /\ IsSubSeq(MostRecent(localSnapshots, maxSnapshots), localSnapshots')
            /\ IsSubSeq(localSnapshots', localSnapshots)]_vars

\* a run has pruned the dataset down to maxSnapshots snapshots, its own the newest
C16_Pruned ==
    /\ lastAttempt.prune = "done"
    /\ Len(localSnapshots) = maxSnapshots
    /\ localSnapshots[1] > 1
    /\ localSnapshots[maxSnapshots] = lastAttempt.snap

(***************************************************************************)
(* Delivery of the pending sends.                                          *)
(***************************************************************************)
\* the names the scheduler gives its snapshots
StampNames == FirstStamp..(FirstStamp + MaxTicks)

\* the latest attempt was not failed by the environment: it succeeded, or it asked for a
\* stream that zfs cannot produce
Healthy == lastAttempt.ok \/ ~lastAttempt.valid

\* C15: when runs keep occurring and from some point on no enumeration, listing,
\* stream or transport failure comes from the environment, every name in pendingSends
\* is eventually sent and removed from the queue.
C15_PendingEventuallySent ==
    <>[]Healthy =>
        \A n \in StampNames :
            (n \in Range(pendingSends)) ~> (n \notin Range(pendingSends))

\* the statuses a job takes, and the moves between them
JobStatuses == {"starting", "safety_check", "awaiting_confirmation", "verifying",
                "preparing", "restoring", "completed", "failed"}
TerminalStatuses == {"completed", "failed"}
StatusMoves ==
    {<<"starting", "safety_check">>, <<"safety_check", "awaiting_confirmation">>,
     <<"safety_check", "verifying">>, <<"awaiting_confirmation", "safety_check">>,
     <<"verifying", "preparing">>, <<"preparing", "restoring">>,
     <<"restoring", "verifying">>, <<"verifying", "completed">>}
        \cup {<<st, "failed">> : st \in JobStatuses \ TerminalStatuses}

GetJob(jobID) == activeJobs[jobID]

\* a tracked job in a terminal status is returned by GetJob as long as less than the
\* retention has passed since it ended
C18_RetrievableInWindow ==
    \A j \in 1..nJobs :
        (jobs[j].tracked /\ jobs[j].Status \in TerminalStatuses
            /\ now < jobs[j].EndTime + Retention)
        => GetJob(jobs[j].ID) = j

\* a tracked job in a terminal status that GetJob still returns has its eviction to come
C18_EvictionToCome ==
    \A j \in 1..nJobs :
        (jobs[j].tracked /\ jobs[j].Status \in TerminalStatuses /\ GetJob(jobs[j].ID) = j)
        => j \in evictors

\* C18: a tracked job that reached completed or failed is returned by GetJob at every
\* moment before one retention window has passed since it entered that status, and it is
\* evicted afterwards, also when it reached the status later than one window after its
\* start.
C18_RetainedFromTerminalEntry == C18_RetrievableInWindow /\ C18_EvictionToCome

\* C19: activeJobs is written only while no other access to it is in progress.
C19_TableWritesAlone ==
    [][activeJobs' # activeJobs => tableUse.readers = {}]_vars

\* C20: a panic inside a job's performRestore is dealt with in that job's goroutine and
\* touches nothing else: the job becomes failed with the error "restore panic: ...", the
\* goroutine goes on to set EndTime and returns, every other job object, every other
\* goroutine, the table and the datasets stay as they are, and the process goes on.
C20_PanicStaysInItsJob ==
    /\ [][(restoreCall'.op = "panic" /\ restoreCall' # restoreCall) =>
            \E w \in workers :
                /\ jobs[w.job].ID = restoreCall'.id
                /\ workers' = Move(w, "endTime")
                /\ jobs'[w.job].Status = "failed"
                /\ jobs'[w.job].Error = "restore panic"
                /\ \A j \in JobObjs : j # w.job => jobs'[j] = jobs[j]
                /\ UNCHANGED <<nJobs, activeJobs, evictors, tableUse, restoreLog>>
                /\ UNCHANGED restoreEnv]_vars
    /\ [](\A j \in 1..nJobs :
            (jobs[j].Error = "restore panic" /\ Returned(j)) =>
                jobs[j].Status = "failed" /\ jobs[j].EndTime # NoTime)

\* one job ended by a panic, another one went on and completed after that
C20_OtherJobCompleted ==
    \E j, k \in 1..nJobs :
        /\ j # k
        /\ jobs[j].Status = "failed" /\ jobs[j].Error = "restore panic"
        /\ jobs[k].Status = "completed" /\ jobs[k].EndTime > jobs[j].EndTime

CleanRun(j) == jobs[j].cleanTarget /\ ~jobs[j].ForceConfirmed

\* C22: a job whose target exists with a snapshot and shows no changes against it never
\* is awaiting_confirmation; it moves only along verifying -> preparing -> restoring ->
\* verifying -> completed (progress 100, EndTime set), and once its transfer succeeded
\* and the requested snapshot is in the target its verification does not fail for a
\* snapshot that is missing.
C22_CleanTargetRunsThrough ==
    /\ [](\A j \in 1..nJobs :
            CleanRun(j) =>
                /\ jobs[j].Status # "awaiting_confirmation"
                /\ ~jobs[j].RequiresConfirm /\ ~jobs[j].SafetyWarning
                /\ jobs[j].Status = "completed" =>
                       /\ jobs[j].Progress = 100
                       /\ Returned(j) => jobs[j].EndTime # NoTime
                /\ (jobs[j].Status = "failed" /\
                    jobs[j].Error = "restored snapshot not found in target dataset")
                   => jobs[j].SnapshotName \notin Range(SnapshotsOf(jobs[j].TargetDataset)))
    /\ [][\A j \in 1..nJobs :
            (CleanRun(j) /\ jobs'[j].Status # jobs[j].Status) =>
                <<jobs[j].Status, jobs'[j].Status>> \in
                    StatusMoves \ {<<"safety_check", "awaiting_confirmation">>,
                                   <<"awaiting_confirmation", "safety_check">>}]_vars

\* C23: a call of RetryPendingSends made while a run holds the send mutex returns at
\* once with "already in progress": the caller does not go on to wait for the mutex, and
\* the queue is left as it is.
C23_RetryTriggerFailsFast ==
    [][\A p \in Procs :
          (/\ Running # {}
           /\ procs[p].pc = "idle"
           /\ procs'[p].kind = "retryAPI")
          => /\ procs'[p].pc = "done"
             /\ lastCall' = [op |-> "RetryPendingSends", err |-> "already in progress"]
             /\ pendingSends' = pendingSends]_vars

\* C24: a scheduled performSnapshot or performRetry is never held up at the send mutex:
\* whenever its goroutine stands at sendMutex.Lock() while a run is in progress, it has
\* a step to take (the step of declining), so it never waits for the run to end.
C24_ScheduledRunNeverWaits ==
    \A p \in Procs :
        (procs[p].origin = "cron" /\ procs[p].pc = "lock" /\ Running # {})
        => ENABLED Lock(p)

ListJobs == {activeJobs[id] : id \in JobIDs} \ {0}

\* C26: the jobs created so far have pairwise different IDs, and as long as none has been
\* evicted, ListJobs returns as many jobs as tracked restores were started and GetJob
\* returns for each ID the job that was started with it.
C26_JobIDsUnique ==
    /\ \A j, k \in 1..nJobs : j # k => jobs[j].ID # jobs[k].ID
    /\ evictors = {j \in 1..nJobs : jobs[j].tracked} =>
          /\ Cardinality(ListJobs) = Cardinality(evictors)
          /\ \A j \in evictors : GetJob(jobs[j].ID) = j

\* the RestoreManager instances restore.New has made, and the one through which the
\* j-th restore is requested
Managers == 1..MaxTableJobs
ManagerOf(j) == j

\* (r *RestoreManager) GetJob and ListJobs: the receiver is not used, the table is the
\* package's
GetJobVia(r, jobID) == GetJob(jobID)
ListJobsVia(r) == ListJobs

\* C27: a job started through one RestoreManager is returned neither by GetJob nor by
\* ListJobs of another one.
C27_JobsOwnedByInstance ==
    \A r \in Managers : \A j \in 1..nJobs :
        ManagerOf(j) # r =>
            /\ GetJobVia(r, jobs[j].ID) # j
            /\ j \notin ListJobsVia(r)

\* a job's status is terminal
Terminal(j) == jobs[j].Status \in TerminalStatuses

SeverityInfo == 0
SeverityWarning == 1
SeverityCritical == 2
SeverityEmergency == 3

\* AlertSeverity.String
String(s) ==
    CASE s = SeverityInfo -> "INFO"
      [] s = SeverityWarning -> "WARNING"
      [] s = SeverityCritical -> "CRITICAL"
      [] s = SeverityEmergency -> "EMERGENCY"
      [] OTHER -> "UNKNOWN"

\* the cooldown of one hour, in clock ticks of half an hour
alertCooldown == 2

\* a temperature more than this many degrees above the recorded one escalates
TemperatureJump == 10

Higher(a, b) == IF a > b THEN a ELSE b

getTemperatureSeverity(temperature, isNVMe) ==
    IF isNVMe
    THEN CASE temperature >= 80 -> SeverityEmergency
           [] temperature >= 70 /\ temperature < 80 -> SeverityCritical
           [] temperature >= 60 /\ temperature < 70 -> SeverityWarning
           [] OTHER -> SeverityInfo
    ELSE CASE temperature >= 70 -> SeverityEmergency
           [] temperature >= 60 /\ temperature < 70 -> SeverityCritical
           [] temperature >= 50 /\ temperature < 60 -> SeverityWarning
           [] OTHER -> SeverityInfo

\* warning&bit != 0, for a bit given by its value
HasBit(warning, bit) == (warning \div bit) % 2 = 1

getCriticalWarningSeverity(warning) ==
    LET s0 == IF HasBit(warning, 8) THEN SeverityEmergency
              ELSE IF HasBit(warning, 4) THEN SeverityCritical
              ELSE SeverityInfo
        s1 == IF HasBit(warning, 1) THEN Higher(SeverityCritical, s0) ELSE s0
    IN  IF HasBit(warning, 2) THEN Higher(SeverityWarning, s1) ELSE s1

getOverallSeverity(smart) ==
    LET temp == getTemperatureSeverity(smart.Temperature, smart.IsNVMe)
        warn == IF smart.IsNVMe /\ smart.CriticalWarning > 0
                THEN getCriticalWarningSeverity(smart.CriticalWarning)
                ELSE SeverityInfo
        wear == IF ~smart.IsNVMe THEN SeverityInfo
                ELSE IF smart.PercentageUsed >= 100 THEN SeverityEmergency
                ELSE IF smart.PercentageUsed >= 95 THEN SeverityCritical
                ELSE IF smart.PercentageUsed >= 90 THEN SeverityWarning
                ELSE SeverityInfo
        spare == IF ~smart.IsNVMe THEN SeverityInfo
                 ELSE IF smart.AvailableSpare <= 5 THEN SeverityEmergency
                 ELSE IF smart.AvailableSpare <= 10 THEN SeverityCritical
                 ELSE IF smart.AvailableSpare <= 20 THEN SeverityWarning
                 ELSE SeverityInfo
    IN  Higher(Higher(Higher(temp, warn), wear), spare)

\* a & ^b on non-negative integers: the bits of a that b does not have
RECURSIVE AndNot(_, _)
AndNot(a, b) ==
    IF a = 0 THEN 0
    ELSE (IF a % 2 = 1 /\ b % 2 = 0 THEN 1 ELSE 0) + 2 * AndNot(a \div 2, b \div 2)

\* the AlertState written when an entry is created or an alert goes out
Recorded(state, smart, severity, t, send) ==
    [LastAlertTime |-> t, LastSeverity |-> severity, LastTemperature |-> smart.Temperature,
     LastCriticalWarning |-> smart.CriticalWarning, exists |-> TRUE,
     alerted |-> (state.alerted \/ send)]

\* the escalation conditions of shouldSendAlert
Escalated(state, smart, severity) ==
    \/ severity > state.LastSeverity
    \/ smart.Temperature > state.LastTemperature + TemperatureJump
    \/ smart.IsNVMe /\ AndNot(smart.CriticalWarning, state.LastCriticalWarning) > 0

\* the cooldown as the only gate: what sendDiskAlert did before escalation was added
shouldSendAfterCooldown(state, smart, severity, t) ==
    IF state.exists /\ t - state.LastAlertTime < alertCooldown
    THEN [send |-> FALSE, state |-> state]
    ELSE [send |-> TRUE, state |-> Recorded(state, smart, severity, t, TRUE)]

\* no cooldown: every report above INFO goes out
shouldSendUnthrottled(state, smart, severity, t) ==
    [send |-> severity > SeverityInfo,
     state |-> Recorded(state, smart, severity, t, severity > SeverityInfo)]

\* shouldSendAlert on the entry of the device (NoState: none), at time t: whether to
\* send, and the entry afterwards
shouldSendAlert(state, smart, severity, t) ==
    IF ~state.exists
    THEN [send |-> severity > SeverityInfo,
          state |-> Recorded(state, smart, severity, t, severity > SeverityInfo)]
    ELSE IF Escalated(state, smart, severity)
    THEN [send |-> TRUE, state |-> Recorded(state, smart, severity, t, TRUE)]
    ELSE IF t - state.LastAlertTime >= alertCooldown /\ severity > SeverityInfo
    THEN [send |-> TRUE, state |-> Recorded(state, smart, severity, t, TRUE)]
    ELSE [send |-> FALSE, state |-> state]

\* fmt.Sprintf("[%s] %s Health Alert: %s", severity.String(), deviceType, smart.Device)
Subject(smart, severity) ==
    <<"[", String(severity), "] ", IF smart.IsNVMe THEN "NVMe SSD" ELSE "Disk",
      " Health Alert: ", smart.Device>>

\* the SMART reports the monitor may get
Temperatures == {39, 50, 60, 61}
Warnings == {0, 2, 3}
\* getSMARTData: a device with nvme in its name gets the NVMe fields, any other leaves
\* them zero
SMARTReports ==
    [Device : {"/dev/nvme0n1"}, IsNVMe : {TRUE}, Temperature : Temperatures,
     CriticalWarning : Warnings, PercentageUsed : {50, 95}, AvailableSpare : {50}]
    \cup
    [Device : {"/dev/sda"}, IsNVMe : {FALSE}, Temperature : Temperatures,
     CriticalWarning : {0}, PercentageUsed : {0}, AvailableSpare : {0}]

sendDiskAlert(smart) ==
    LET severity == getOverallSeverity(smart)
        d == shouldSendAlert(alertStates[smart.Device], smart, severity, now)
    IN  /\ alertStates' = [alertStates EXCEPT ![smart.Device] = d.state]
        /\ diskCall' = [smart |-> smart, severity |-> severity,
                        prev |-> alertStates[smart.Device], at |-> now, sent |-> d.send,
                        subject |-> IF d.send THEN Subject(smart, severity) ELSE <<>>]
        /\ UNCHANGED <<schedOwn, restoreOwn, cron, localSnapshots, remoteSnapshots, now>>

\* a new monitor; nothing else runs
AlertInit ==
    /\ SchedNew
    /\ RestoreUnused
    /\ MonitorNew
    /\ serial = FALSE
    /\ localSnapshots = <<>>
    /\ remoteSnapshots = <<>>

AlertNext ==
    \/ \E smart \in SMARTReports : sendDiskAlert(smart)
    \/ Tick

AlertSpec == AlertInit /\ [][AlertNext]_vars

\* the latest sendDiskAlert call found an entry written when an alert went out, and
\* came before the cooldown since that alert was over
InsideCooldown ==
    /\ diskCall.prev.exists
    /\ diskCall.at - diskCall.prev.LastAlertTime < alertCooldown

\* the call brought a critical-warning bit of an NVMe drive that the entry does not have
NewWarningBit ==
    /\ diskCall.smart.IsNVMe
    /\ AndNot(diskCall.smart.CriticalWarning, diskCall.prev.LastCriticalWarning) > 0

\* C29: after an alert has been sent for a device, a sendDiskAlert for the same device
\* with the same severity, a temperature at most 10 degrees above the recorded one and
\* no new NVMe critical-warning bit sends nothing while the cooldown has not elapsed.
C29_RepeatHeldBackInCooldown ==
    (/\ InsideCooldown
     /\ diskCall.prev.alerted
     /\ diskCall.severity = diskCall.prev.LastSeverity
     /\ diskCall.smart.Temperature <= diskCall.prev.LastTemperature + TemperatureJump
     /\ ~NewWarningBit)
    => (~diskCall.sent /\ alertStates[diskCall.smart.Device] = diskCall.prev)

\* a repeated report above INFO, ten degrees hotter than the one alerted, one tick after
\* that alert: held back
C29_RepeatHeldBack ==
    /\ InsideCooldown
    /\ diskCall.prev.alerted
    /\ diskCall.at > diskCall.prev.LastAlertTime
    /\ diskCall.severity = diskCall.prev.LastSeverity
    /\ diskCall.severity > SeverityInfo
    /\ diskCall.smart.Temperature = diskCall.prev.LastTemperature + TemperatureJump
    /\ ~NewWarningBit
    /\ ~diskCall.sent

\* the same report once the cooldown is over goes out
C29_RepeatSentAfterCooldown ==
    /\ diskCall.prev.alerted
    /\ diskCall.at - diskCall.prev.LastAlertTime >= alertCooldown
    /\ diskCall.severity = diskCall.prev.LastSeverity
    /\ diskCall.smart.Temperature <= diskCall.prev.LastTemperature + TemperatureJump
    /\ ~NewWarningBit
    /\ diskCall.sent

\* the subject handed to the Alerter names this severity
SubjectCarries(severity) ==
    \E i \in 1..Len(diskCall.subject) : diskCall.subject[i] = String(severity)

HigherSeverity == diskCall.severity > diskCall.prev.LastSeverity
HotterByMoreThanJump ==
    diskCall.smart.Temperature > diskCall.prev.LastTemperature + TemperatureJump

\* C30: a sendDiskAlert for a device that has an entry, with a severity above the
\* recorded one, or a temperature more than 10 degrees above the recorded one, or (NVMe)
\* a critical-warning bit not recorded, sends an alert at once, cooldown or not, and the
\* subject of the alert carries the severity of this report.
C30_EscalationSendsAtOnce ==
    (diskCall.prev.exists /\ (HigherSeverity \/ HotterByMoreThanJump \/ NewWarningBit))
    => /\ diskCall.sent
       /\ SubjectCarries(getOverallSeverity(diskCall.smart))
       /\ alertStates[diskCall.smart.Device].LastSeverity = getOverallSeverity(diskCall.smart)
       /\ alertStates[diskCall.smart.Device].LastAlertTime = diskCall.at

\* a higher severity in the tick of the previous alert: sent, with the new severity
C30_HigherSeveritySent ==
    /\ InsideCooldown
    /\ diskCall.prev.alerted
    /\ diskCall.at = diskCall.prev.LastAlertTime
    /\ HigherSeverity
    /\ diskCall.sent
    /\ SubjectCarries(diskCall.severity)
    /\ ~SubjectCarries(diskCall.prev.LastSeverity)

\* eleven degrees more at the same severity, inside the cooldown: sent
C30_TemperatureJumpSent ==
    /\ InsideCooldown
    /\ ~HigherSeverity /\ ~NewWarningBit
    /\ HotterByMoreThanJump
    /\ diskCall.sent

\* a new critical-warning bit of an NVMe drive at the same severity and temperature,
\* inside the cooldown: sent
C30_NewWarningBitSent ==
    /\ InsideCooldown
    /\ ~HigherSeverity /\ ~HotterByMoreThanJump
    /\ NewWarningBit
    /\ diskCall.sent

(***************************************************************************)
(* The life cycle of the scheduler: Start and Stop                         *)
(***************************************************************************)

\* how often Start is called in all
MaxStarts == 2

\* Start: three AddFunc calls, each appending an entry to the cron, then cron.Start(),
\* which sets the cron running again; the context stays as it is
Start ==
    /\ ~cron.running
    /\ cron.entries["snapshot"] < MaxStarts
    /\ cron' = [cron EXCEPT !.running = TRUE,
                            !.entries = [k \in JobKinds |-> cron.entries[k] + 1]]
    /\ UNCHANGED <<schedOwn, restoreOwn, monOwn, localSnapshots, remoteSnapshots, now>>

\* Stop: s.cancel(); s.cron.Stop(). The cron starts no further job; the goroutines it
\* has started, and sendMutex, are left alone
Stop ==
    /\ cron.running
    /\ cron' = [cron EXCEPT !.running = FALSE, !.cancelled = TRUE]
    /\ UNCHANGED <<schedOwn, restoreOwn, monOwn, localSnapshots, remoteSnapshots, now>>

StopNext ==
    \/ SchedNext
    \/ Start
    \/ Stop

StopSpec == SchedInit /\ [][StopNext]_vars

\* C31: no replication run begins once Stop has returned, whether from the cron
\* schedule, through TriggerSnapshot or through a retry trigger.
C31_NoRunAfterStop ==
    \A p \in Procs : procs[p].afterStop => procs[p].pc \notin InRun

\* what does hold: the cron itself starts nothing after Stop
C31_CronStartsNothingAfterStop ==
    \A p \in Procs : procs[p].afterStop => procs[p].origin # "cron"

\* and Stop leaves the goroutines in a run where they are
C31_StopInterruptsNothing ==
    [][Stop => (procs' = procs /\ sendMutex' = sendMutex)]_vars

\* the goroutines one cron tick started for one job kind
SameTick(p, q) ==
    /\ procs[p].origin = "cron" /\ procs[q].origin = "cron"
    /\ procs[p].kind = procs[q].kind
    /\ procs[p].batch = procs[q].batch

\* C38: after Start, Stop and Start again every job kind is registered exactly once, so
\* one cron tick starts at most one run per job kind.
C38_OneRunPerTick ==
    /\ cron.running => \A k \in JobKinds : cron.entries[k] = 1
    /\ \A p, q \in Procs : SameTick(p, q) => p = q

\* the transport was asked to restore for job j
Transferred(j) == \E e \in restoreLog : e.job = j

\* C32: when the safety check cannot list the local snapshots the job goes to failed;
\* the restore does not take the failure for "target does not exist" and go on to the
\* transfer without the confirmation gate.
C32_ListingFailureFailsJob ==
    \A j \in 1..nJobs :
        jobs[j].listFailed =>
            /\ jobs[j].Status \in {"safety_check", "failed"}
            /\ ~Transferred(j)

\* where the job gets to after the failed listing: a transfer onto a target that exists
\* and holds changes, never confirmed
C32_TransferAfterFailedListing ==
    \E j \in 1..nJobs :
        /\ jobs[j].listFailed /\ ~jobs[j].ForceConfirmed /\ ~jobs[j].RequiresConfirm
        /\ jobs[j].TargetDataset = Dataset /\ localSnapshots # <<>>
        /\ Transferred(j)

\* the goroutine is in performSnapshot after CreateSnapshot failed, at the deferred Unlock
\* (a run whose snapshot was created carries its name)
CreateFailed(p) ==
    /\ procs[p].kind = "snapshot"
    /\ procs[p].pc = "unlock"
    /\ procs[p].snap = NoName

\* C33: when creating the new snapshot fails the run notifies the failure and returns:
\* no remote enumeration, no send, nothing appended to pendingSends, no pruning, and the
\* mutex is released.
C33_FailedCreateAborts ==
    [][\A p \in Procs :
         /\ (procs[p].pc = "create" /\ procs'[p].pc = "unlock")
               => /\ alerts' = SendSyncFailure(now)
                  /\ sendMutex'
                  /\ CreateFailed(p)'
                  /\ UNCHANGED <<pendingSends, lastAttempt, localSnapshots, remoteSnapshots>>
         /\ (CreateFailed(p) /\ procs'[p] # procs[p])
               => /\ procs'[p].pc = "done"
                  /\ ~sendMutex'
                  /\ UNCHANGED <<pendingSends, lastAttempt, localSnapshots, remoteSnapshots,
                                 alerts>>]_vars

\* a run whose snapshot name was taken, after a drain that left a name in the queue
C33_AbortedAfterDrain ==
    \E p \in Procs :
        /\ CreateFailed(p)
        /\ alerts.kind = "failure" /\ alerts.snap \in Range(localSnapshots)
        /\ pendingSends # <<>>
        /\ sendMutex

\* the names both sides hold
Common == Range(remoteSnapshots) \cap Range(localSnapshots)

\* C34: whatever the order of the names in the remote enumeration, the base of an
\* incremental send is the common snapshot that is the most recent in local creation
\* order.
C34_BaseIsLatestCommonLocally ==
    [][\A p \in Procs :
          ( /\ SendsNew(p)
            /\ ~lastAttempt'.enumErr /\ ~lastAttempt'.listErr
            /\ procs[p].snap \notin Range(remoteSnapshots)
            /\ Common # {} )
          => /\ lastAttempt'.plan = "incr"
             /\ lastAttempt'.base \in Common
             /\ \A c \in Common \ {lastAttempt'.base} :
                    Precedes(c, lastAttempt'.base, localSnapshots)]_vars

\* what the loops compute: the common name that comes last in the remote enumeration
C34_BaseIsLastCommonRemotely ==
    [][\A p \in Procs :
          ( /\ SendsNew(p)
            /\ ~lastAttempt'.enumErr /\ ~lastAttempt'.listErr
            /\ Common # {} )
          => /\ lastAttempt'.plan = "incr"
             /\ lastAttempt'.base \in Common
             /\ \A c \in Common \ {lastAttempt'.base} :
                    Precedes(c, lastAttempt'.base, remoteSnapshots)]_vars

\* sendSnapshot has just chosen sendIncrementalSnapshot
IncrementalChosen == lastAttempt' # lastAttempt /\ lastAttempt'.plan = "incr"

\* C35: the base of every incremental send, of a new snapshot or of a queued one, is
\* another snapshot than the one sent and was created before it.
C35_BaseOlderThanSent ==
    [][IncrementalChosen =>
          /\ lastAttempt'.base # lastAttempt'.snap
          /\ Precedes(lastAttempt'.base, lastAttempt'.snap, localSnapshots)]_vars

\* for the snapshot a run has just created this does hold
C35_BaseOlderThanNew ==
    [][\A p \in Procs :
          (SendsNew(p) /\ IncrementalChosen /\ procs[p].snap \notin Range(remoteSnapshots))
          => /\ lastAttempt'.base # lastAttempt'.snap
             /\ Precedes(lastAttempt'.base, lastAttempt'.snap, localSnapshots)]_vars

\* the retry of a queued snapshot was given a newer snapshot as its base
C35_RetryFromNewer ==
    /\ lastAttempt.plan = "incr"
    /\ lastAttempt.snap \in Range(pendingSends)
    /\ Precedes(lastAttempt.snap, lastAttempt.base, localSnapshots)

\* the retry of a queued snapshot was given the snapshot itself as its base
C35_RetryFromItself ==
    /\ lastAttempt.plan = "incr"
    /\ lastAttempt.snap \in Range(pendingSends)
    /\ lastAttempt.base = lastAttempt.snap

\* the performRestore goroutines at work on job j
WorkersOf(j) == {w \in workers : w.job = j}

\* C36: at most one goroutine executes performRestore for a job at any time, however
\* ConfirmDestructiveRestore calls interleave with the job's worker.
C36_OneWorkerPerJob ==
    \A j \in 1..nJobs : Cardinality(WorkersOf(j)) <= 1

\* the worker that asked for the confirmation has not returned yet, the worker started
\* by the confirmation is past the safety check, and the first then writes the warning
\* into the confirmed job
C36_WarningAfterConfirmation ==
    \E j \in 1..nJobs :
        /\ jobs[j].ForceConfirmed
        /\ jobs[j].SafetyWarning
        /\ jobs[j].Status \in {"preparing", "restoring", "verifying", "completed"}

\* C37: no disk alert is sent for a report whose overall severity is INFO, whatever was
\* recorded for the device before.
C37_NoAlertForInfo ==
    getOverallSeverity(diskCall.smart) = SeverityInfo => ~diskCall.sent

\* what does hold: a report at INFO goes out only as an escalation, by temperature or by
\* a new warning bit
C37_InfoSentOnlyEscalated ==
    (diskCall.severity = SeverityInfo /\ diskCall.sent)
    => (diskCall.prev.exists /\ (HotterByMoreThanJump \/ NewWarningBit))

(***************************************************************************)
(* The transport shared by the scheduler and the restore manager.  A call  *)
(* of the transport (the test of t.client, Connect when it is nil, the SSH *)
(* session) takes time: a goroutine first is inside the call, and the step *)
(* that uses the result of the call ends it.                               *)
(***************************************************************************)

\* a scheduler goroutine enters s.transport.ListRemoteSnapshots / SendSnapshot, from
\* sendSnapshot for the new snapshot or for a queued one
SendEntersTransport(p) ==
    /\ procs[p].pc \in {"send", "loop"}
    /\ ~procs[p].inCall
    /\ procs' = [procs EXCEPT ![p].inCall = TRUE]
    /\ UNCHANGED <<sendMutex, pendingSends, started, serial, trigHolding, localSnapshots,
                   remoteSnapshots, now, alerts, lastAttempt, lastCall>>
    /\ UNCHANGED <<restoreOwn, monOwn, cron>>

\* a performRestore goroutine enters r.transport.ListRemoteSnapshots (or
\* GetSnapshotsForDataset) in step 1, or r.transport.RestoreSnapshot... in step 3
RestoreEntersTransport(w) ==
    /\ w \in workers
    /\ w.pc \in {"enumerate", "restore"}
    /\ ~w.inCall
    /\ workers' = (workers \ {w}) \cup {[w EXCEPT !.inCall = TRUE]}
    /\ restoreCall' = NoRestoreCall
    /\ UNCHANGED <<jobs, nJobs, activeJobs, evictors, restoreLog>>
    /\ UNCHANGED restoreEnv
    /\ UNCHANGED tableUse
    /\ UNCHANGED <<schedOwn, monOwn, cron>>

\* server.New: one SSHTransport handed to scheduler.New and to restore.New; the dataset
\* has one snapshot, which the remote side holds
TransportInit ==
    /\ SchedNew
    /\ serial = TRUE
    /\ RestoreNew
    /\ MonitorNew
    /\ localSnapshots = <<1>>
    /\ remoteSnapshots = <<1>>
    /\ sourceSnapshots = <<>>
    /\ dirty = [d \in Datasets |-> FALSE]
    /\ otherExists = FALSE
    /\ otherSnapshots = <<>>

TransportNext ==
    \/ CronSnapshot
    \/ \E p \in Procs : Lock(p)
    \/ \E p \in Procs : RetryStep(p)
    \/ \E p \in Procs : CreateSnapshot(p)
    \/ \E p \in Procs : SendEntersTransport(p)
    \/ \E p \in Procs : SendNew(p)
    \/ \E p \in Procs : Unlock(p)
    \/ StartRestoreWithTracking(1, Dataset)
    \/ \E w \in workers : WorkerStart(w)
    \/ \E w \in workers : WorkerExists(w)
    \/ \E w \in workers : WorkerUncommitted(w)
    \/ \E w \in workers : WorkerEnumerate(w)
    \/ \E w \in workers : WorkerPrepare(w)
    \/ \E w \in workers : RestoreEntersTransport(w)
    \/ \E w \in workers : WorkerRestore(w)
    \/ \E w \in workers : WorkerVerify(w)
    \/ \E w \in workers : WorkerEndTime(w)

TransportSpec == TransportInit /\ [][TransportNext]_vars

\* the goroutines inside a call of the transport
SendersInCall == {p \in Procs : procs[p].inCall}
RestorersInCall == {w \in workers : w.inCall}

\* C39: the use of the one transport is serialized: no two operations use it at the same
\* time, be it a restore worker and a replication send or two restore workers.
C39_TransportUsedByOne ==
    Cardinality(SendersInCall) + Cardinality(RestorersInCall) <= 1

\* what sendMutex does give: at most one scheduler goroutine is in the transport
C39_OneSenderInCall == Cardinality(SendersInCall) <= 1

\* a restore transfer under way while a replication send is
C39_RestoreDuringSend ==
    /\ \E p \in SendersInCall : procs[p].pc = "send"
    /\ \E w \in RestorersInCall : w.pc = "restore"

\* two restore workers in the transport at once
C39_TwoRestorers ==
    \E v, w \in RestorersInCall : v.job # w.job

====
